---------------------------- MODULE Spec2Model ----------------------------
(***************************************************************************)
(* Receipt pipeline of parvezamm3/receipt_agent: the validation engine     *)
(* (tools.py validate_extracted_data), the file lifecycle manager          *)
(* (manage_processed_receipt_files, request_human_review), the stage graph *)
(* (agent_controller.py workflow) and the dispatcher (PDFHandler).         *)
(*                                                                         *)
(* Strings are sequences of tokens.  A token is one character, or one      *)
(* fixed piece of text of the source that is never inspected inside.  The  *)
(* Japanese literals of the source are transliterated: "nen" "gatsu"       *)
(* "nichi" are the date characters of the first strptime format, and the   *)
(* keys of a field map are date (hizuke), amount (kingaku), vendor         *)
(* (aitesaki), name (namae), reg (toroku bango), orig (moto-mei), items    *)
(* (tekiyo, the itemized lines).                                           *)
(***************************************************************************)
EXTENDS Integers, Sequences, FiniteSets, TLC

(***************************************************************************)
(* JSON values and Python strings                                          *)
(***************************************************************************)
Digits == {"0", "1", "2", "3", "4", "5", "6", "7", "8", "9"}

DigitVal(c) ==
    CASE c = "0" -> 0 [] c = "1" -> 1 [] c = "2" -> 2 [] c = "3" -> 3
      [] c = "4" -> 4 [] c = "5" -> 5 [] c = "6" -> 6 [] c = "7" -> 7
      [] c = "8" -> 8 [] c = "9" -> 9

DigitChar(n) ==
    CASE n = 0 -> "0" [] n = 1 -> "1" [] n = 2 -> "2" [] n = 3 -> "3"
      [] n = 4 -> "4" [] n = 5 -> "5" [] n = 6 -> "6" [] n = 7 -> "7"
      [] n = 8 -> "8" [] n = 9 -> "9"

\* A JSON value of a field: absent key, null, a string or a non-negative integer
\* (v holds the characters of the string, or the decimal digits of the integer).
Missing == [t |-> "missing", v |-> <<>>]
JNull == [t |-> "null", v |-> <<>>]
JStr(s) == [t |-> "str", v |-> s]
JInt(s) == [t |-> "int", v |-> s]

\* A JSON list: v holds its elements, JSON values themselves.
JList(elements) == [t |-> "list", v |-> elements]

\* Python truthiness of a JSON value: None, "" and 0 are falsy.
Truthy(j) ==
    CASE j.t = "str" -> j.v # <<>>
      [] j.t = "int" -> j.v # <<"0">>
      [] OTHER -> FALSE

\* str(x) of a value obtained with data.get(key, "").
PyStr(j) ==
    CASE j.t = "missing" -> <<>>
      [] j.t = "null" -> <<"N", "o", "n", "e">>
      [] OTHER -> j.v

\* s.replace(c, "")
RECURSIVE Remove(_, _)
Remove(s, c) ==
    IF s = <<>> THEN <<>>
    ELSE IF Head(s) = c THEN Remove(Tail(s), c)
    ELSE <<Head(s)>> \o Remove(Tail(s), c)

RECURSIVE LStrip(_)
LStrip(s) == IF s # <<>> /\ Head(s) = " " THEN LStrip(Tail(s)) ELSE s

RECURSIVE RStrip(_)
RStrip(s) ==
    IF s # <<>> /\ s[Len(s)] = " " THEN RStrip(SubSeq(s, 1, Len(s) - 1)) ELSE s

\* s.strip()
Strip(s) == RStrip(LStrip(s))

\* re.fullmatch(r'\d+', s)
AllDigits(s) == s # <<>> /\ \A i \in 1..Len(s) : s[i] \in Digits

\* needle in haystack, for strings
Contains(hay, needle) ==
    \E i \in 1..(Len(hay) + 1) :
        /\ i + Len(needle) - 1 <= Len(hay)
        /\ SubSeq(hay, i, i + Len(needle) - 1) = needle

\* "\n".join(lines)
RECURSIVE Join(_)
Join(lines) ==
    IF lines = <<>> THEN <<>>
    ELSE IF Len(lines) = 1 THEN lines[1]
    ELSE lines[1] \o <<"\n">> \o Join(Tail(lines))

(***************************************************************************)
(* datetime.strptime / strftime                                            *)
(***************************************************************************)
NoMatch == [ok |-> FALSE, end |-> 0, Y |-> 0, m |-> 0, d |-> 0]

IsDigitAt(s, i) == i >= 1 /\ i <= Len(s) /\ s[i] \in Digits

Num2(s, i) == 10 * DigitVal(s[i]) + DigitVal(s[i + 1])

\* The regular expression strptime compiles a format into, matched at position i
\* with the alternatives of each directive tried in their order and backtracking:
\*   %Y  \d\d\d\d
\*   %m  1[0-2]|0[1-9]|[1-9]
\*   %d  3[0-1]|[1-2]\d|0[1-9]|[1-9]| [1-9]
\* any other item of the format is a literal character.
RECURSIVE MatchFrom(_, _, _, _)
MatchFrom(fmt, s, i, acc) ==
    IF fmt = <<>> THEN [acc EXCEPT !.ok = TRUE, !.end = i]
    ELSE
      LET it == Head(fmt)
          rest == Tail(fmt)
      IN
      CASE it = "%Y" ->
             IF /\ IsDigitAt(s, i) /\ IsDigitAt(s, i + 1)
                /\ IsDigitAt(s, i + 2) /\ IsDigitAt(s, i + 3)
             THEN MatchFrom(rest, s, i + 4,
                            [acc EXCEPT !.Y = 100 * Num2(s, i) + Num2(s, i + 2)])
             ELSE NoMatch
        [] it = "%m" ->
             LET two == IF /\ IsDigitAt(s, i) /\ IsDigitAt(s, i + 1)
                           /\ Num2(s, i) >= 1 /\ Num2(s, i) <= 12
                        THEN MatchFrom(rest, s, i + 2, [acc EXCEPT !.m = Num2(s, i)])
                        ELSE NoMatch
                 one == IF IsDigitAt(s, i) /\ s[i] # "0"
                        THEN MatchFrom(rest, s, i + 1, [acc EXCEPT !.m = DigitVal(s[i])])
                        ELSE NoMatch
             IN IF two.ok THEN two ELSE one
        [] it = "%d" ->
             LET two == IF /\ IsDigitAt(s, i) /\ IsDigitAt(s, i + 1)
                           /\ Num2(s, i) >= 1 /\ Num2(s, i) <= 31
                        THEN MatchFrom(rest, s, i + 2, [acc EXCEPT !.d = Num2(s, i)])
                        ELSE NoMatch
                 one == IF IsDigitAt(s, i) /\ s[i] # "0"
                        THEN MatchFrom(rest, s, i + 1, [acc EXCEPT !.d = DigitVal(s[i])])
                        ELSE NoMatch
                 spc == IF /\ i <= Len(s) /\ s[i] = " "
                           /\ IsDigitAt(s, i + 1) /\ s[i + 1] # "0"
                        THEN MatchFrom(rest, s, i + 2,
                                       [acc EXCEPT !.d = DigitVal(s[i + 1])])
                        ELSE NoMatch
             IN IF two.ok THEN two ELSE IF one.ok THEN one ELSE spc
        [] OTHER ->
             IF i <= Len(s) /\ s[i] = it
             THEN MatchFrom(rest, s, i + 1, acc)
             ELSE NoMatch

IsLeap(y) == (y % 4 = 0 /\ y % 100 # 0) \/ y % 400 = 0

DaysInMonth(y, m) ==
    CASE m \in {4, 6, 9, 11} -> 30
      [] m = 2 -> IF IsLeap(y) THEN 29 ELSE 28
      [] OTHER -> 31

\* datetime.strptime(s, fmt): the date, or ok = FALSE where it raises ValueError
\* (no match, unconverted data remains, year 0, day out of range for month).
Strptime(s, fmt) ==
    LET r == MatchFrom(fmt, s, 1, NoMatch)
    IN IF /\ r.ok
          /\ r.end = Len(s) + 1
          /\ r.Y >= 1
          /\ r.d <= DaysInMonth(r.Y, r.m)
       THEN r
       ELSE NoMatch

Pad2(n) == <<DigitChar(n \div 10), DigitChar(n % 10)>>

\* The decimal digits of n, without padding.
RECURSIVE Decimal(_)
Decimal(n) == IF n < 10 THEN <<DigitChar(n)>> ELSE Decimal(n \div 10) \o <<DigitChar(n % 10)>>

Pad4(n) == Pad2(n \div 100) \o Pad2(n % 100)

\* parsed_date.strftime("%Y%m%d").  The C library formats %Y: it pads a year
\* below 1000 to four digits on some platforms and not on others (padYear).
Strftime(r, padYear) ==
    (IF padYear THEN Pad4(r.Y) ELSE Decimal(r.Y)) \o Pad2(r.m) \o Pad2(r.d)

\* tools.py:249, in the order they are tried
DateFormats ==
    << <<"%Y", "nen", "%m", "gatsu", "%d", "nichi">>,
       <<"%Y", "/", "%m", "/", "%d">>,
       <<"%Y", "-", "%m", "-", "%d">>,
       <<"%Y", "%m", "%d">> >>

\* The loop of tools.py:249-254: the first format that parses.
RECURSIVE ParseDateFrom(_, _)
ParseDateFrom(s, k) ==
    IF k > Len(DateFormats) THEN NoMatch
    ELSE LET r == Strptime(Remove(s, " "), DateFormats[k])
         IN IF r.ok THEN r ELSE ParseDateFrom(s, k + 1)

ParseDate(s) == ParseDateFrom(s, 1)


(***************************************************************************)
(* Field maps and tagged result strings                                    *)
(***************************************************************************)
\* A field map (the JSON object of one receipt).  vendor is the kind of the
\* value under the vendor key ("missing", "null", "str", "obj"); name is the
\* value under its name key when it is an object.
FieldMap(date, amount, vendor, name, reg) ==
    [date |-> date, amount |-> amount, vendor |-> vendor, name |-> name,
     reg |-> reg, addressee |-> JStr(<<"x">>), orig |-> Missing, items |-> Missing]

\* A result string "<TAG><json or text>" of a tool: tag is the prefix the callers
\* test with startswith, json holds the field map json.dumps wrote (<<m>>, or <<>>
\* when the string carries none), text the rest of a message.
Tagged(tag, text) == [tag |-> tag, json |-> <<>>, text |-> text]
TaggedJson(tag, m) == [tag |-> tag, json |-> <<m>>, text |-> <<>>]

\* An exception leaving a tool, as the value of the call.
Raised(what) == Tagged("RAISE", <<what>>)

StartsWith(r, tag) == r.tag = tag

\* The whole string, as tokens (a field map is not spelled out).
Text(r) == <<r.tag>> \o r.text

(***************************************************************************)
(* tools.py validate_extracted_data                                        *)
(***************************************************************************)
\* tools.py:242-260
DateErrors(data) ==
    IF ~Truthy(data.date)
    THEN << <<"hizuke (Date) is missing.">> >>
    ELSE IF data.date.t # "str"
    THEN \* date_str.replace raises AttributeError, caught at line 259
         << <<"hizuke '">> \o data.date.v \o <<"' is of an unexpected form or invalid.">> >>
    ELSE IF ParseDate(data.date.v).ok
    THEN <<>>
    ELSE << <<"hizuke '">> \o data.date.v
            \o <<"' is not in a recognised YYYYMMDD, YYYY/MM/DD or YYYY-MM-DD form.">> >>

\* tools.py:256
NormalizeDate(data, padYear) ==
    IF Truthy(data.date) /\ data.date.t = "str" /\ ParseDate(data.date.v).ok
    THEN [data EXCEPT !.date = JStr(Strftime(ParseDate(data.date.v), padYear))]
    ELSE data

\* AmountStr without the removal of the thousands separators.
AmountStrKeepsSeparators(data) == Strip(PyStr(data.amount))

\* tools.py:263
AmountStr(data) == Strip(Remove(PyStr(data.amount), ","))

\* tools.py:264-267; the message shows str(data.get(amount)), None when absent
AmountErrors(data) ==
    IF AmountStr(data) = <<>>
    THEN << <<"kingaku was not extracted. Check the file.">> >>
    ELSE IF ~AllDigits(AmountStr(data))
    THEN << <<"kingaku '">>
            \o (IF data.amount.t = "missing" THEN PyStr(JNull) ELSE PyStr(data.amount))
            \o <<"' is not purely numeric.">> >>
    ELSE <<>>

\* NormalizeAmount that leaves the amount as it was extracted
NormalizeAmountKeepsInput(data) == data

\* tools.py:268-269
NormalizeAmount(data) ==
    IF AllDigits(AmountStr(data))
    THEN [data EXCEPT !.amount = JStr(AmountStr(data))]
    ELSE data

\* tools.py:272-273: vendor_obj.get raises AttributeError when the vendor value
\* is null or anything else that is not an object.
VendorRaises(data) == data.vendor \in {"null", "str"}

\* tools.py:272-275
VendorErrors(data) ==
    LET vendor_name == IF data.vendor = "obj" THEN data.name ELSE Missing
    IN IF Truthy(vendor_name) /\ vendor_name.t = "str" /\ Strip(vendor_name.v) # <<>>
       THEN <<>>
       ELSE << <<"aitesaki was not extracted. Check the file.">> >>

\* A registration check that reports nothing
RegistrationErrorsNone(data) == <<>>

\* tools.py:277-279
RegistrationErrors(data) ==
    IF Truthy(data.reg)
    THEN <<>>
    ELSE << <<"toroku bango was not extracted. Check the file.">> >>

\* A validator that returns at the first defect it finds
validate_first_defect_only(data, padYear) ==
    LET errors == DateErrors(data) \o AmountErrors(data) \o VendorErrors(data)
                  \o RegistrationErrors(data)
    IN IF VendorRaises(data)
       THEN Raised("AttributeError: object has no attribute 'get'")
       ELSE IF errors # <<>>
       THEN Tagged("ERROR:", <<" ">> \o errors[1])
       ELSE TaggedJson("OK:", NormalizeAmount(NormalizeDate(data, padYear)))

\* tools.py:239-295, for input that parses as a JSON object
validate_extracted_data(data, padYear) ==
    LET errors == DateErrors(data) \o AmountErrors(data) \o VendorErrors(data)
                  \o RegistrationErrors(data)
    IN IF VendorRaises(data)
       THEN Raised("AttributeError: object has no attribute 'get'")
       ELSE IF errors # <<>>
       THEN Tagged("ERROR:", <<" ">> \o Join(errors))
       ELSE TaggedJson("OK:", NormalizeAmount(NormalizeDate(data, padYear)))

(***************************************************************************)
(* agent_controller.py GraphState and the stage functions                  *)
(***************************************************************************)
\* An optional key of a dict: <<>> when the key is absent, <<v>> when it holds v.
Absent == <<>>
Some(v) == <<v>>
Get(opt, default) == IF opt = Absent THEN default ELSE opt[1]

\* agent_controller.py:62-73 and 475-478: the state a run starts with
GraphState(pdf_path) ==
    [pdf_path |-> pdf_path, image_paths |-> Some(<<>>), extracted_data |-> Absent,
     validated_data |-> Absent, error_message |-> Absent, processed_status |-> Absent]

\* The dict a stage function returns: pdf_path and image_paths always, the other
\* keys when given.
Patch(pdf_path, image_paths, extracted_data, validated_data, error_message, status) ==
    [pdf_path |-> pdf_path, image_paths |-> Some(image_paths),
     extracted_data |-> extracted_data, validated_data |-> validated_data,
     error_message |-> error_message, processed_status |-> status]

Failed(pdf_path, image_paths, message) ==
    Patch(pdf_path, image_paths, Absent, Absent, Some(message), Some("FAILED"))

\* How the graph applies a node's return value: no key of GraphState has a
\* reducer (the "append" of line 68 is a string, not a function), so each key
\* the node returned replaces the stored value and the others are kept.
Merge(state, patch) ==
    [pdf_path |-> patch.pdf_path,
     image_paths |-> patch.image_paths,
     extracted_data |->
        IF patch.extracted_data # Absent THEN patch.extracted_data ELSE state.extracted_data,
     validated_data |->
        IF patch.validated_data # Absent THEN patch.validated_data ELSE state.validated_data,
     error_message |->
        IF patch.error_message # Absent THEN patch.error_message ELSE state.error_message,
     processed_status |->
        IF patch.processed_status # Absent THEN patch.processed_status
        ELSE state.processed_status]

\* call_extract_images reporting a failure in words of its own
call_extract_images_generic(state, result) ==
    IF StartsWith(result, "ERROR:")
    THEN Failed(state.pdf_path, <<>>, <<"Image extraction failed.">>)
    ELSE Patch(state.pdf_path, result.text, Absent, Absent, Absent, Some("SUCCESS"))

\* agent_controller.py:78-108; result is what extract_and_crop_receipt_images
\* returned: "ERROR:..." or the JSON of the image paths (its text).
call_extract_images(state, result) ==
    IF StartsWith(result, "ERROR:")
    THEN Failed(state.pdf_path, <<>>, Text(result))
    ELSE Patch(state.pdf_path, result.text, Absent, Absent, Absent, Some("SUCCESS"))

\* agent_controller.py:110-144; result is what extract_data_from_images returned
\* (not called when there are no image paths).
call_extract_data(state, result) ==
    IF state.image_paths[1] = <<>>
    THEN Failed(state.pdf_path, <<>>, <<"No images available for data extraction.">>)
    ELSE IF StartsWith(result, "ERROR:")
    THEN Failed(state.pdf_path, state.image_paths[1], Text(result))
    ELSE Patch(state.pdf_path, state.image_paths[1], Some(result.json[1]),
               Absent, Absent, Absent)

\* agent_controller.py:146-177; result is what validate_extracted_data returned
\* or raised (not called when there is no extracted data).
call_validate_data(state, result) ==
    IF state.extracted_data = Absent
    THEN Failed(state.pdf_path, state.image_paths[1],
                <<"No data available for validation.">>)
    ELSE IF StartsWith(result, "RAISE")
    THEN Failed(state.pdf_path, state.image_paths[1],
                <<"Validate data failed: ">> \o result.text)
    ELSE Patch(state.pdf_path, state.image_paths[1], Absent, Some(result),
               Absent, Absent)

\* A review stage that does not look for its prerequisites
NothingMissingForReview(state) == FALSE

\* agent_controller.py:187: the review cannot be asked for
MissingForReview(state) ==
    state.extracted_data = Absent \/ state.image_paths[1] = <<>>

\* agent_controller.py:179-218; result is what human_validation_with_gradio
\* returned or raised (not called when data or images are missing).
call_human_validation(state, result) ==
    IF MissingForReview(state)
    THEN Failed(state.pdf_path, state.image_paths[1],
                <<"Missing data or images for human validation.">>)
    ELSE IF StartsWith(result, "RAISE")
    THEN Failed(state.pdf_path, state.image_paths[1],
                <<"Human validation failed: ">> \o result.text)
    ELSE Patch(state.pdf_path, state.image_paths[1], Absent, Some(result),
               Absent, Absent)

\* A router that sends every run to filing
route_all_to_filing(state) == "manage_files"

\* A router that sends everything but a rejection to filing
route_unless_rejected(state) ==
    IF state.validated_data # Absent /\ StartsWith(state.validated_data[1], "REJECTED:")
    THEN "request_review"
    ELSE "manage_files"

\* agent_controller.py:319-327.  The assignment to state["error_message"] in
\* the else branch changes the router's own copy of the state only: the graph
\* stores what nodes return, so the next node does not see it.
route_human_validation_result(state) ==
    IF state.validated_data # Absent /\ StartsWith(state.validated_data[1], "APPROVED:")
    THEN "manage_files"
    ELSE "request_review"

\* agent_controller.py:226: call_manage_files refuses anything but an approval
InvalidForFiling(state) ==
    state.validated_data = Absent \/ ~StartsWith(state.validated_data[1], "APPROVED:")

\* agent_controller.py:220-271; result is what manage_processed_receipt_files
\* returned or raised (not called when the validated data is not an approval).
call_manage_files(state, result) ==
    IF InvalidForFiling(state)
    THEN Failed(state.pdf_path, state.image_paths[1],
                <<"Invalid validated data for file management.">>)
    ELSE IF StartsWith(result, "RAISE")
    THEN Failed(state.pdf_path, state.image_paths[1],
                <<"Manage files failed: ">> \o result.text)
    ELSE IF StartsWith(result, "ERROR:")
    THEN Failed(state.pdf_path, state.image_paths[1], Text(result))
    ELSE Patch(state.pdf_path, state.image_paths[1], Absent, Absent, Absent,
               Some("SUCCESS"))

\* agent_controller.py:277
ProblemDescription(state) ==
    Get(state.error_message, <<"Unknown error or rejection during workflow.">>)

\* A quarantine stage that reports the success of its move
call_request_review_by_outcome(state, result) ==
    IF StartsWith(result, "ERROR:")
    THEN Failed(state.pdf_path, <<>>, Text(result))
    ELSE Patch(state.pdf_path, <<>>, Absent, Absent, Some(Text(result)), Some("SUCCESS"))

\* agent_controller.py:273-304; result is what request_human_review returned
call_request_review(state, result) ==
    Failed(state.pdf_path, <<>>, Text(result))

(***************************************************************************)
(* tools.py: file lifecycle manager and review gateway                     *)
(***************************************************************************)
Letters ==
    {"a", "b", "c", "d", "e", "f", "g", "h", "i", "j", "k", "l", "m", "n", "o", "p",
     "q", "r", "s", "t", "u", "v", "w", "x", "y", "z", "A", "B", "C", "D", "E", "F",
     "G", "H", "I", "J", "K", "L", "M", "N", "O", "P", "Q", "R", "S", "T", "U", "V",
     "W", "X", "Y", "Z"}

\* c.isalnum() or c in (' ', '_', '-')
KeptInFileName(c) == c \in Letters \cup Digits \cup {" ", "_", "-"}

\* tools.py:320
VendorNameMax == 50

\* tools.py:319-321
SanitizeVendor(vendor_name) ==
    LET kept == Strip(SelectSeq(vendor_name, KeptInFileName))
        named == IF kept = <<>> THEN <<"fumei">> ELSE kept
    IN IF Len(named) > VendorNameMax THEN SubSeq(named, 1, VendorNameMax) ELSE named

\* f"{x}" of a JSON value
Fmt(j) == IF j.t = "null" THEN PyStr(JNull) ELSE j.v

\* tools.py:313: the two keys are looked for in what json.loads returned, which
\* for the JSON of an empty list has no key at all.
MissingEssential(data) ==
    \/ "date" \notin DOMAIN data
    \/ data.date.t = "missing"
    \/ data.amount.t = "missing"

\* tools.py:318-319: .get on a vendor that is no object raises AttributeError,
\* iterating over a name that is no string raises TypeError.
FilingRaises(data) ==
    \/ data.vendor \in {"null", "str"}
    \/ data.vendor = "obj" /\ data.name.t \in {"null", "int"}

\* tools.py:316-328
NewFilenameBase(data) ==
    Fmt(data.date) \o <<"_">> \o Fmt(data.amount) \o <<"_">>
    \o SanitizeVendor(IF data.vendor = "obj" /\ data.name.t = "str"
                      THEN data.name.v ELSE <<"fumei">>)

\* tools.py:329: the key of the log entry
NewPdfName(data, random_string) == [base |-> NewFilenameBase(data), rand |-> random_string]

\* A file of the output folder: new_pdf_name, or with the counter of line 335
\* when that name is taken (counter 0 stands for no suffix).
OutputFile(name, counter) == [base |-> name.base, rand |-> name.rand, counter |-> counter]

\* tools.py:330, 343: os.path.join(output_pdf_folder, new_pdf_name) is a file of
\* the output folder itself unless the name holds a path separator; the folders
\* such a name leads into are never made.
InOutputFolder(file) == \A k \in 1..Len(file.base) : file.base[k] # "/"

\* tools.py:333-336: the first free destination path
RECURSIVE FreeDestination(_, _, _)
FreeDestination(name, counter, folder) ==
    IF OutputFile(name, counter) \in folder
    THEN FreeDestination(name, counter + 1, folder)
    ELSE OutputFile(name, counter)

\* tools.py:346-358: the map read from the log (a corrupt log reads as empty),
\* with the entry of this document set under new_pdf_name.
LogWithEntry(log, name, data, original_filename) ==
    LET master_data == IF log.corrupt THEN {} ELSE log.entries
        entry == [key |-> name, rec |-> [data EXCEPT !.orig = JStr(original_filename)]]
    IN [corrupt |-> FALSE,
        entries |-> {e \in master_data : e.key # name} \cup {entry}]

HasKey(log, name) == ~log.corrupt /\ \E e \in log.entries : e.key = name

\* The strings manage_processed_receipt_files returns (tools.py:314, 339, 369, 372)
FilingMissingFields ==
    Tagged("ERROR:", <<" Extracted data missing essential fields for renaming.">>)
FilingNotFound(pdf_path) ==
    Tagged("ERROR:", <<" Original PDF '">> \o pdf_path \o <<"' not found for copying.">>)
FilingFailure(pdf_path, what) ==
    Tagged("ERROR:", <<" Failed to copy or update log for '">> \o pdf_path
                     \o <<"': ", what>>)
FilingSuccess(pdf_path) ==
    Tagged("SUCCESS:", <<" Copied '">> \o pdf_path \o <<"'. Master log updated.">>)

\* tools.py:374-390: what request_human_review returns.  present: the file is at
\* pdf_path; moved: shutil.move did not raise.
\* A quarantine whose confirmation leaves the reason out
request_human_review_without_reason(pdf_path, problem_description, present, moved) ==
    IF ~present
    THEN Tagged("ERROR:", <<" Cannot move '">> \o pdf_path
                          \o <<"' for human review; file not found.">>)
    ELSE IF moved
    THEN Tagged("HUMAN_REVIEW_REQUIRED:",
                <<" Moved '">> \o pdf_path
                \o <<"' to the error folder for manual review.">>)
    ELSE Tagged("ERROR:", <<" Failed to move '">> \o pdf_path
                          \o <<"' to error folder for human review">>)

request_human_review(pdf_path, problem_description, present, moved) ==
    IF ~present
    THEN Tagged("ERROR:", <<" Cannot move '">> \o pdf_path
                          \o <<"' for human review; file not found.">>)
    ELSE IF moved
    THEN Tagged("HUMAN_REVIEW_REQUIRED:",
                <<" Moved '">> \o pdf_path
                \o <<"' to the error folder for manual review. Problem: ">>
                \o problem_description)
    ELSE Tagged("ERROR:", <<" Failed to move '">> \o pdf_path
                          \o <<"' to error folder for human review">>)

\* tools.py:414-418: what the editor of the review page starts with
InitialEditorData(extracted_data, validated_data) ==
    IF StartsWith(validated_data, "OK:") THEN validated_data.json[1] ELSE extracted_data

\* A status line that leaves the validator's message out
ValidationStatusWithoutText(validated_data) ==
    IF StartsWith(validated_data, "OK:")
    THEN <<"Initial Validation Status: SUCCESS">>
    ELSE <<"Initial Validation Status: FAILED">>

\* tools.py:420-424: the status line of the review page; validated_data_str[6:]
\* is the string without its "ERROR:" prefix.
ValidationStatus(validated_data) ==
    IF StartsWith(validated_data, "OK:")
    THEN <<"Initial Validation Status: SUCCESS">>
    ELSE <<"Initial Validation Status: FAILED - ">> \o validated_data.text

\* A submit that approves whatever text the editor holds
submit_without_parsing(parsed, action_type, feedback) ==
    IF action_type # "approve"
    THEN Tagged("REJECTED:", <<" Human rejected. Feedback: ">> \o feedback)
    ELSE IF parsed = <<>>
    THEN Tagged("APPROVED:", <<"not JSON">>)
    ELSE TaggedJson("APPROVED:", parsed[1])

\* tools.py:435-449: what one click on a button of the review page records.
\* parsed is <<m>> when the text of the editor is the JSON of m, <<>> when
\* json.loads raises on it.
submit(parsed, action_type, feedback) ==
    IF parsed = <<>>
    THEN Tagged("REJECTED:", <<" JSON error">>)
    ELSE IF action_type = "approve"
    THEN TaggedJson("APPROVED:", parsed[1])
    ELSE Tagged("REJECTED:", <<" Human rejected. Feedback: ">> \o feedback)

(***************************************************************************)
(* State                                                                   *)
(***************************************************************************)
VARIABLES
    inputDir,     \* the PDFs present in the watched folder (their paths)
    outputDir,    \* the files of output_pdfs
    successDir,   \* the files of success_pdfs
    errorDir,     \* the files of error_pdfs, the quarantine
    masterLog,    \* the content of extracted_receipt_data.json
    eventQueue,   \* the observer's queue of on_created events
    nEvents,      \* how many events the watcher has emitted
    active,       \* the runs of on_created that have started and not returned
    ended,        \* <<r>> for the run r that returned last, until the next starts
    vPad,         \* whether strftime pads a year below 1000 for that call
    vIn,          \* the field map handed to validate_extracted_data on its own
    vOut,         \* what that call returned, Absent before it
    tDisk,        \* the folders and the log file, file by file, for the tools on their own
    tCall,        \* <<c>> for the call c of a tool that is under way there
    tOut,         \* <<r>> for what the last call of a tool returned there
    tPlaced,      \* how many source files have been placed there
    session       \* a review session on its own: the tool, its server and its page

vars == <<inputDir, outputDir, successDir, errorDir, masterLog, eventQueue, nEvents,
          active, ended, vPad, vIn, vOut, tDisk, tCall, tOut, tPlaced, session>>

fsVars == <<inputDir, outputDir, successDir, errorDir, masterLog>>
validateVars == <<vPad, vIn, vOut>>
toolVars == <<tDisk, tCall, tOut, tPlaced>>

\* What the pipeline never touches: the variables of the tools taken on their own.
aloneVars == <<validateVars, toolVars, session>>

(***************************************************************************)
(* Bounds and inputs                                                       *)
(***************************************************************************)
\* The number of notifications the watcher emits in a behaviour.
MaxEvents == 2

\* A path is <<stem, extension>>.
PdfPaths == {<<"a", ".pdf">>, <<"b", ".PDF">>}

\* Notifications that are not for a PDF file: a directory, another file.
OtherEvents ==
    {[src_path |-> <<"d", ".pdf">>, is_directory |-> TRUE],
     [src_path |-> <<"n", ".txt">>, is_directory |-> FALSE]}

\* str.lower() of an extension
Lower(ext) == IF ext = ".PDF" THEN ".pdf" ELSE ext

D_2025_01_01 == <<"2", "0", "2", "5", "-", "0", "1", "-", "0", "1">>
D_2025_13_01 == <<"2", "0", "2", "5", "/", "1", "3", "/", "0", "1">>
A_1000 == <<"1", ",", "0", "0", "0">>
A_1000a == <<"1", "0", "0", "0", "a">>
N_Acme == <<"A", "c", "m", "e">>
R_T123 == <<"T", "1", "2", "3">>

\* Scenario A and scenario B of the specification, and a map whose vendor is null.
FieldsA == FieldMap(JStr(D_2025_01_01), JStr(A_1000), "obj", JStr(N_Acme), JStr(R_T123))
FieldsB == FieldMap(JStr(D_2025_13_01), JStr(A_1000a), "missing", Missing, Missing)
FieldsNullVendor == FieldMap(JStr(D_2025_01_01), JStr(A_1000), "null", Missing, JStr(R_T123))

\* What the recognition service may return for a document.
RecognizedChoices == {FieldsA, FieldsB, FieldsNullVendor}

\* validate_extracted_data on each of these maps, worked out once.
ValidatedChoices ==
    [data \in RecognizedChoices, padYear \in BOOLEAN |->
        validate_extracted_data(data, padYear)]

\* Error texts of the extraction and recognition collaborators.
CollaboratorErrors == {<<" Failed to extract: broken file">>}

\* What the reviewer may do: the button, what the editor holds when it is
\* pressed (the text shown, the text with the date key or the registration key
\* deleted, the JSON of an empty list, text that is not JSON) and the
\* feedback typed.
Submissions ==
    {[action_type |-> "approve", editor |-> "shown", feedback |-> <<>>],
     [action_type |-> "approve", editor |-> "no_date", feedback |-> <<>>],
     [action_type |-> "approve", editor |-> "no_registration", feedback |-> <<>>],
     [action_type |-> "approve", editor |-> "not_json", feedback |-> <<>>],
     [action_type |-> "approve", editor |-> "empty_list", feedback |-> <<>>],
     [action_type |-> "reject", editor |-> "shown", feedback |-> <<"blurry scan">>]}

\* uuid.uuid4().hex[:6]
RandomStrings == {"0a1b2c", "3d4e5f"}

\* How writing the log can end: written, open() raised (the file is as it was),
\* json.dump raised after open(..., "w") truncated the file.
LogOutcomes == {"written", "open_raised", "dump_raised"}

\* Whether shutil.move into the error folder succeeds when the source is there.
\* The folder is created at start-up (agent_controller.py:55) and again by
\* request_human_review (tools.py:381-382); the move into it is taken to succeed.
QuarantineMoveOutcomes == {TRUE}

(***************************************************************************)
(* Runs                                                                    *)
(***************************************************************************)
\* One run of PDFHandler.on_created: the graph state, the node about to run
\* (pc), the last chunk app.stream yielded (final_state), the locals of
\* manage_processed_receipt_files between its steps (mf), and a record of what
\* the run did, which no step reads:
\*   trace        the chunks app.stream has yielded, {node: patch} each, in order
\*   presented    <<page>> once the review page was shown, with what it showed
\*   filing       manage_processed_receipt_files was called
\*   copied       the copy into the output folder was made
\*   logged       <<key>> once the log entry was written
\*   quarantined  the source was moved into the error folder
\*   reason       <<text>>, the problem description of that move
\*   cause        <<text>>, the message of the first stage that failed
\*   srcStayed    the source was at its path when the run started and nothing
\*                but the run itself has removed it since
\*   presentAtEnd the source was at its path when the stream was exhausted
NewRun(pdf_path, present) ==
    [state |-> GraphState(pdf_path), pc |-> "extract_images",
     final_state |-> [node |-> "none", out |-> GraphState(pdf_path)],
     mf |-> Absent, trace |-> <<>>, presented |-> Absent, filing |-> FALSE,
     copied |-> FALSE, logged |-> Absent, quarantined |-> FALSE, reason |-> Absent,
     cause |-> Absent, srcStayed |-> present, presentAtEnd |-> FALSE]

\* The edges with the router of agent_controller.py:309-317 and 349-357 (now
\* commented out) in place: accepted data goes to filing without a review.
EdgeFromValidationRouter(node, state) ==
    CASE node = "extract_images" -> "extract_data"
      [] node = "extract_data" -> "validate_data"
      [] node = "validate_data" ->
            IF state.validated_data # Absent /\ StartsWith(state.validated_data[1], "OK:")
            THEN "manage_files"
            ELSE "human_validation"
      [] node = "human_validation" -> route_human_validation_result(state)
      [] node = "manage_files" -> "finish"
      [] node = "request_review" -> "finish"

\* Edges that send a quarantined run on to the filing stage
EdgeFromQuarantineToFiling(node, state) ==
    CASE node = "extract_images" -> "extract_data"
      [] node = "extract_data" -> "validate_data"
      [] node = "validate_data" -> "human_validation"
      [] node = "human_validation" -> route_human_validation_result(state)
      [] node = "manage_files" -> "finish"
      [] node = "request_review" -> "manage_files"

\* agent_controller.py:341-371: the edges of the graph ("finish" is END, where
\* app.stream is exhausted and on_created goes on at line 486)
EdgeFrom(node, state) ==
    CASE node = "extract_images" -> "extract_data"
      [] node = "extract_data" -> "validate_data"
      [] node = "validate_data" -> "human_validation"
      [] node = "human_validation" -> route_human_validation_result(state)
      [] node = "manage_files" -> "finish"
      [] node = "request_review" -> "finish"

\* One step of app.stream: the node returned patch; the graph merges it, yields
\* the chunk {node: patch} and follows the edge.  failure is the message with
\* which the stage failed, Absent when it did not fail.
Advance(run, node, patch, failure) ==
    [run EXCEPT !.state = Merge(run.state, patch),
                !.final_state = [node |-> node, out |-> patch],
                !.trace = Append(run.trace, [node |-> node, out |-> patch]),
                !.pc = EdgeFrom(node, Merge(run.state, patch)),
                !.cause = IF run.cause = Absent THEN failure ELSE run.cause]

FailureOf(patch) ==
    IF patch.processed_status = Some("FAILED") THEN patch.error_message ELSE Absent

\* final_state.get(key, default) on the chunk {node: patch}
FinalStateGet(final_state, key, default) ==
    IF final_state.node = key THEN final_state.out ELSE default

\* A handler that takes the extension as it is written
HandlesEventCaseSensitive(event) ==
    ~event.is_directory /\ event.src_path[2] = ".pdf"

\* agent_controller.py:470
HandlesEvent(event) ==
    ~event.is_directory /\ Lower(event.src_path[2]) = ".pdf"

\* An observer that calls on_created for each event in a thread of its own
ObserverAlwaysFree == TRUE

\* watchdog's observer thread takes one event off its queue and calls on_created,
\* which returns only when the whole workflow has (agent_controller.py:480-499,
\* 514-517): the next event is dispatched when no run is in progress.
ObserverFree == active = <<>>

Running(i, node) == i \in 1..Len(active) /\ active[i].pc = node

SetRun(i, run) == active' = [active EXCEPT ![i] = run]

(***************************************************************************)
(* The watcher and the outside world                                       *)
(***************************************************************************)
Emit(event) ==
    /\ nEvents < MaxEvents
    /\ nEvents' = nEvents + 1
    /\ eventQueue' = Append(eventQueue, event)

\* A PDF is dropped into the watched folder.
DropPdf(p) ==
    /\ p \notin inputDir
    /\ Emit([src_path |-> p, is_directory |-> FALSE])
    /\ inputDir' = inputDir \cup {p}
    /\ UNCHANGED <<outputDir, successDir, errorDir, masterLog, active, ended,
                   aloneVars>>

\* The watcher reports a file that is already there once more.
Renotify(p) ==
    /\ p \in inputDir
    /\ Emit([src_path |-> p, is_directory |-> FALSE])
    /\ UNCHANGED <<fsVars, active, ended, aloneVars>>

\* The watcher reports something that is not a PDF file.
OtherEvent(event) ==
    /\ Emit(event)
    /\ UNCHANGED <<fsVars, active, ended, aloneVars>>

\* Somebody deletes a source file.
ExternalRemove(p) ==
    /\ p \in inputDir
    /\ inputDir' = inputDir \ {p}
    /\ active' = [i \in 1..Len(active) |->
                    IF active[i].state.pdf_path = p
                    THEN [active[i] EXCEPT !.srcStayed = FALSE]
                    ELSE active[i]]
    /\ UNCHANGED <<outputDir, successDir, errorDir, masterLog, eventQueue, nEvents,
                   ended, aloneVars>>

\* agent_controller.py:469-478: the observer thread calls on_created
Dispatch ==
    /\ eventQueue # <<>>
    /\ ObserverFree
    /\ eventQueue' = Tail(eventQueue)
    /\ active' = IF HandlesEvent(Head(eventQueue))
                 THEN Append(active, NewRun(Head(eventQueue).src_path,
                                            Head(eventQueue).src_path \in inputDir))
                 ELSE active
    /\ ended' = IF HandlesEvent(Head(eventQueue)) THEN Absent ELSE ended
    /\ UNCHANGED <<fsVars, nEvents, aloneVars>>

(***************************************************************************)
(* The stages of a run                                                     *)
(***************************************************************************)
RunFrame == UNCHANGED <<eventQueue, nEvents, ended, aloneVars>>

\* Node extract_images.  The tool reports a missing PDF (tools.py:118-119), an
\* error of the extraction, or the images it wrote (none for a PDF of no page).
ExtractImages(i) ==
    /\ Running(i, "extract_images")
    /\ RunFrame
    /\ LET run == active[i]
           pdf_path == run.state.pdf_path
       IN \E result \in
                 IF pdf_path \notin inputDir
                 THEN {Tagged("ERROR:", <<" PDF file not found at ">> \o pdf_path)}
                 ELSE {Tagged("ERROR:", e) : e \in CollaboratorErrors}
                      \cup {Tagged("{", <<"page_1.png">>), Tagged("{", <<>>)} :
            LET patch == call_extract_images(run.state, result)
            IN SetRun(i, Advance(run, "extract_images", patch, FailureOf(patch)))
    /\ UNCHANGED fsVars

\* Node extract_data.  The recognition service returns an error or a field map.
ExtractData(i) ==
    /\ Running(i, "extract_data")
    /\ RunFrame
    /\ LET run == active[i]
       IN \E result \in {Tagged("ERROR:", e) : e \in CollaboratorErrors}
                        \cup {TaggedJson("{", m) : m \in RecognizedChoices} :
            LET patch == call_extract_data(run.state, result)
            IN SetRun(i, Advance(run, "extract_data", patch, FailureOf(patch)))
    /\ UNCHANGED fsVars

\* Node validate_data.  How the platform's strftime pads the year is not known.
ValidateData(i) ==
    /\ Running(i, "validate_data")
    /\ RunFrame
    /\ LET run == active[i]
       IN \E padYear \in BOOLEAN :
            LET result == IF run.state.extracted_data = Absent
                          THEN Raised("not called")
                          ELSE ValidatedChoices[run.state.extracted_data[1], padYear]
                patch == call_validate_data(run.state, result)
            IN SetRun(i, Advance(run, "validate_data", patch, FailureOf(patch)))
    /\ UNCHANGED fsVars

\* What the review stage failed with, when its result is not an approval: the
\* feedback of a rejection, else the whole message.
ReviewFailure(result, feedback) ==
    IF StartsWith(result, "APPROVED:") THEN Absent
    ELSE IF feedback # <<>> THEN Some(feedback)
    ELSE Some(Text(result))

\* Node human_validation up to the point where the review page is shown and the
\* tool waits for the reviewer (tools.py:406-508).  Without data or images the
\* tool is not called.  Without validated data it is called with None for a
\* string: the call raises before the tool body runs, or the body fails at
\* line 415 and returns the error of line 528.  A missing PDF is reported as a
\* rejection (line 411); starting the content server or the page can fail.
HumanValidation(i) ==
    /\ Running(i, "human_validation")
    /\ RunFrame
    /\ LET run == active[i]
           st == run.state
           done(result) ==
               LET patch == call_human_validation(st, result)
               IN SetRun(i, Advance(run, "human_validation", patch,
                                    IF FailureOf(patch) # Absent THEN FailureOf(patch)
                                    ELSE ReviewFailure(result, <<>>)))
           setupError == Tagged("ERROR:",
                           <<" An error occurred during Gradio human validation setup">>)
       IN IF MissingForReview(st)
          THEN done(setupError)
          ELSE IF st.validated_data = Absent
          THEN \E result \in {Raised("ValidationError"), setupError} : done(result)
          ELSE IF st.pdf_path \notin inputDir
          THEN done(Tagged("REJECTED:", <<" Original PDF file not found for display.">>))
          ELSE \/ done(setupError)
               \/ SetRun(i, [run EXCEPT
                      !.pc = "review_wait",
                      !.presented = Some(
                          [editor |-> InitialEditorData(st.extracted_data[1],
                                                        st.validated_data[1]),
                           status |-> ValidationStatus(st.validated_data[1])])])
    /\ UNCHANGED fsVars

\* The text of the editor when a button is pressed, parsed.
EditorParsed(shown, editor) ==
    CASE editor = "shown" -> Some(shown)
      [] editor = "no_date" -> Some([shown EXCEPT !.date = Missing])
      [] editor = "no_registration" -> Some([shown EXCEPT !.reg = Missing])
      [] editor = "empty_list" -> Some(JList(<<>>))
      [] editor = "not_json" -> Absent

\* The reviewer presses a button; the tool stops waiting, tears the page down
\* and returns the recorded result (tools.py:508-524), and the node returns.
ReviewSubmit(i) ==
    /\ Running(i, "review_wait")
    /\ RunFrame
    /\ LET run == active[i]
       IN \E sub \in Submissions :
            LET result == submit(EditorParsed(run.presented[1].editor, sub.editor),
                                 sub.action_type, sub.feedback)
                patch == call_human_validation(run.state, result)
            IN SetRun(i, Advance(run, "human_validation", patch,
                                 ReviewFailure(result, sub.feedback)))
    /\ UNCHANGED fsVars

\* Node request_review: the source is moved into the error folder.
RequestReview(i) ==
    /\ Running(i, "request_review")
    /\ RunFrame
    /\ LET run == active[i]
           pdf_path == run.state.pdf_path
           present == pdf_path \in inputDir
       IN \E moved \in QuarantineMoveOutcomes :
            LET result == request_human_review(pdf_path, ProblemDescription(run.state),
                                               present, moved)
                patch == call_request_review(run.state, result)
                after == Advance(run, "request_review", patch, Absent)
            IN /\ SetRun(i, IF present /\ moved
                            THEN [after EXCEPT !.quarantined = TRUE,
                                               !.reason = Some(ProblemDescription(run.state))]
                            ELSE after)
               /\ inputDir' = IF present /\ moved THEN inputDir \ {pdf_path} ELSE inputDir
               /\ errorDir' = IF present /\ moved THEN errorDir \cup {pdf_path} ELSE errorDir
    /\ UNCHANGED <<outputDir, successDir, masterLog>>

\* The node manage_files returns with what the tool returned or raised.
FilingReturns(i, run, result) ==
    LET patch == call_manage_files(run.state, result)
    IN SetRun(i, Advance([run EXCEPT !.mf = Absent], "manage_files", patch,
                         FailureOf(patch)))

\* Node manage_files, up to the copy (agent_controller.py:220-245,
\* tools.py:308-339): the record is checked, the name is made with a fresh
\* random string, a free destination is looked for, the source must exist.
ManageFiles(i) ==
    /\ Running(i, "manage_files")
    /\ RunFrame
    /\ LET run == active[i]
           st == run.state
           called == [run EXCEPT !.filing = TRUE]
       IN IF InvalidForFiling(st)
          THEN FilingReturns(i, run, FilingMissingFields)
          ELSE LET data == st.validated_data[1].json[1]
               IN IF MissingEssential(data)
                  THEN FilingReturns(i, called, FilingMissingFields)
                  ELSE IF FilingRaises(data)
                  THEN FilingReturns(i, called, Raised("AttributeError or TypeError"))
                  ELSE \E random_string \in RandomStrings :
                         IF st.pdf_path \notin inputDir
                         THEN FilingReturns(i, called, FilingNotFound(st.pdf_path))
                         ELSE SetRun(i, [called EXCEPT
                                !.pc = "mf_copy",
                                !.mf = Some(
                                   [name |-> NewPdfName(data, random_string),
                                    destination |->
                                       FreeDestination(NewPdfName(data, random_string),
                                                       0, outputDir),
                                    data |-> data])])
    /\ UNCHANGED fsVars

\* A filing that goes on to the log whether or not the copy was made
FilingCopyUnchecked(i) ==
    /\ Running(i, "mf_copy")
    /\ RunFrame
    /\ LET run == active[i]
           pdf_path == run.state.pdf_path
       IN \E ok \in BOOLEAN :
            IF ok /\ pdf_path \in inputDir /\ InOutputFolder(run.mf[1].destination)
            THEN /\ outputDir' = outputDir \cup {run.mf[1].destination}
                 /\ SetRun(i, [run EXCEPT !.pc = "mf_log", !.copied = TRUE])
            ELSE /\ outputDir' = outputDir
                 /\ SetRun(i, [run EXCEPT !.pc = "mf_log"])
    /\ UNCHANGED <<inputDir, successDir, errorDir, masterLog>>

\* tools.py:343: shutil.copy of the source to the destination, which can raise,
\* and does when the name leads into a folder that is not there.
FilingCopy(i) ==
    /\ Running(i, "mf_copy")
    /\ RunFrame
    /\ LET run == active[i]
           pdf_path == run.state.pdf_path
       IN \E ok \in BOOLEAN :
            IF ok /\ pdf_path \in inputDir /\ InOutputFolder(run.mf[1].destination)
            THEN /\ outputDir' = outputDir \cup {run.mf[1].destination}
                 /\ SetRun(i, [run EXCEPT !.pc = "mf_log", !.copied = TRUE])
            ELSE /\ outputDir' = outputDir
                 /\ FilingReturns(i, run, FilingFailure(pdf_path, "copy"))
    /\ UNCHANGED <<inputDir, successDir, errorDir, masterLog>>

\* tools.py:346-362: the log is read, the entry set and the whole map written.
FilingLog(i) ==
    /\ Running(i, "mf_log")
    /\ RunFrame
    /\ LET run == active[i]
           pdf_path == run.state.pdf_path
       IN \E outcome \in LogOutcomes :
            CASE outcome = "written" ->
                   /\ masterLog' = LogWithEntry(masterLog, run.mf[1].name,
                                                run.mf[1].data, pdf_path)
                   /\ SetRun(i, [run EXCEPT !.pc = "mf_move",
                                            !.logged = Some(run.mf[1].name)])
              [] outcome = "open_raised" ->
                   /\ masterLog' = masterLog
                   /\ FilingReturns(i, run, FilingFailure(pdf_path, "log"))
              [] outcome = "dump_raised" ->
                   /\ masterLog' = [corrupt |-> TRUE, entries |-> {}]
                   /\ FilingReturns(i, run, FilingFailure(pdf_path, "log"))
    /\ UNCHANGED <<inputDir, outputDir, successDir, errorDir>>

\* tools.py:364-372: the source is moved to the success folder, which can raise;
\* the tool then returns the error of line 372.
FilingMove(i) ==
    /\ Running(i, "mf_move")
    /\ RunFrame
    /\ LET run == active[i]
           pdf_path == run.state.pdf_path
       IN \E ok \in BOOLEAN :
            IF ok /\ pdf_path \in inputDir
            THEN /\ inputDir' = inputDir \ {pdf_path}
                 /\ successDir' = successDir \cup {pdf_path}
                 /\ FilingReturns(i, run, FilingSuccess(pdf_path))
            ELSE /\ UNCHANGED <<inputDir, successDir>>
                 /\ FilingReturns(i, run, FilingFailure(pdf_path, "move"))
    /\ UNCHANGED <<outputDir, errorDir, masterLog>>

\* agent_controller.py:493
DispatcherReason(final_state) ==
    FinalStateGet(final_state, "error_message", <<"No specific error message.">>)

\* A dispatcher that never quarantines
RunSucceededAlways(final_state) == TRUE

\* A dispatcher that takes any reported status for a success
RunSucceededOnAnyStatus(final_state) == final_state.out.processed_status # Absent

\* agent_controller.py:486-489: the run is a success when the patch of the last
\* node says so
RunSucceeded(final_state) == final_state.out.processed_status = Some("SUCCESS")

\* agent_controller.py:486-511: the stream is exhausted; unless the last node
\* reported SUCCESS, move_to_error moves the source into the error folder if it
\* is still at its path.  on_created returns.
Finish(i) ==
    /\ Running(i, "finish")
    /\ UNCHANGED <<eventQueue, nEvents, aloneVars>>
    /\ LET run == active[i]
           pdf_path == run.state.pdf_path
           moves == ~RunSucceeded(run.final_state) /\ pdf_path \in inputDir
       IN \E moved \in QuarantineMoveOutcomes :
            /\ inputDir' = IF moves /\ moved THEN inputDir \ {pdf_path} ELSE inputDir
            /\ errorDir' = IF moves /\ moved THEN errorDir \cup {pdf_path} ELSE errorDir
            /\ ended' = Some(IF moves /\ moved
                             THEN [run EXCEPT !.pc = "returned",
                                              !.presentAtEnd = TRUE,
                                              !.quarantined = TRUE,
                                              !.reason = Some(DispatcherReason(run.final_state))]
                             ELSE [run EXCEPT !.pc = "returned",
                                              !.presentAtEnd = pdf_path \in inputDir])
    /\ active' = [j \in 1..(Len(active) - 1) |->
                    IF j < i THEN active[j] ELSE active[j + 1]]
    /\ UNCHANGED <<outputDir, successDir, masterLog>>

(***************************************************************************)
(* The pipeline                                                            *)
(***************************************************************************)
\* The folders and the log of the tools taken on their own, before anything
\* is placed there (agent_controller.py:50-59 makes the folders).
EmptyDisk ==
    [input |-> {}, output |-> {}, success |-> {}, error |-> {},
     log |-> [kind |-> "absent", entries |-> {}]]

\* No tool is taken on its own.
ToolsIdle ==
    /\ tDisk = EmptyDisk
    /\ tCall = Absent
    /\ tOut = Absent
    /\ tPlaced = 0

\* No review session is taken on its own.
NoSession == [pc |-> "none"]

Init ==
    /\ inputDir = {}
    /\ outputDir = {}
    /\ successDir = {}
    /\ errorDir = {}
    /\ masterLog = [corrupt |-> FALSE, entries |-> {}]
    /\ eventQueue = <<>>
    /\ nEvents = 0
    /\ active = <<>>
    /\ ended = Absent
    /\ vPad = FALSE
    /\ vIn = FieldsA
    /\ vOut = Absent
    /\ ToolsIdle
    /\ session = NoSession

Next ==
    \/ \E p \in PdfPaths : DropPdf(p)
    \/ \E p \in PdfPaths : Renotify(p)
    \/ \E event \in OtherEvents : OtherEvent(event)
    \/ \E p \in PdfPaths : ExternalRemove(p)
    \/ Dispatch
    \/ \E i \in 1..Len(active) : ExtractImages(i)
    \/ \E i \in 1..Len(active) : ExtractData(i)
    \/ \E i \in 1..Len(active) : ValidateData(i)
    \/ \E i \in 1..Len(active) : HumanValidation(i)
    \/ \E i \in 1..Len(active) : ReviewSubmit(i)
    \/ \E i \in 1..Len(active) : ManageFiles(i)
    \/ \E i \in 1..Len(active) : FilingCopy(i)
    \/ \E i \in 1..Len(active) : FilingLog(i)
    \/ \E i \in 1..Len(active) : FilingMove(i)
    \/ \E i \in 1..Len(active) : RequestReview(i)
    \/ \E i \in 1..Len(active) : Finish(i)

Spec == Init /\ [][Next]_vars

\* One step of the run in progress.  on_created runs in the observer's thread
\* (agent_controller.py:480-499), which goes on until the function returns.
StageStep ==
    \E i \in 1..Len(active) :
        \/ ExtractImages(i) \/ ExtractData(i) \/ ValidateData(i) \/ HumanValidation(i)
        \/ ManageFiles(i) \/ FilingCopy(i) \/ FilingLog(i) \/ FilingMove(i)
        \/ RequestReview(i) \/ Finish(i)

\* The reviewer presses a button of the page that is shown (tools.py:508 waits
\* for it without a timeout).
ReviewerSubmits == \E i \in 1..Len(active) : ReviewSubmit(i)

\* The pipeline with a thread that keeps running and a reviewer who answers.
FairSpec == Spec /\ WF_vars(StageStep) /\ WF_vars(ReviewerSubmits)

(***************************************************************************)
(* validate_extracted_data on its own                                      *)
(***************************************************************************)
\* The values each field of the validated map is drawn from.
DateValues ==
    {Missing,
     JNull,
     JStr(<<>>),
     JStr(<<"2", "0", "2", "5", "-", "0", "1", "-", "0", "1">>),
     JStr(<<"2", "0", "2", "5", "/", "1", "3", "/", "0", "1">>),
     JStr(<<"2", "0", "2", "5", "nen", "1", "gatsu", "5", "nichi">>),
     JStr(<<"2", "0", "2", "5", "0", "1", "0", "1">>),
     JStr(<<"2", "0", "2", "4", "-", "0", "2", "-", "2", "9">>),
     JStr(<<"2", "0", "2", "5", "-", "0", "2", "-", "2", "9">>),
     JStr(<<"0", "9", "9", "9", "-", "0", "1", "-", "0", "1">>),
     JStr(<<"2", "0", "2", "5", "/", "1", "/", "1">>),
     JStr(<<"2", "0", "2", "5", "1", "1">>),
     JStr(<<"2", "0", "2", "5", " ", "-", " ", "0", "1", " ", "-", " ", "0", "1">>),
     JStr(<<"0", "0", "0", "0", "-", "0", "1", "-", "0", "1">>),
     JStr(<<"2", "0", "2", "5", "-", "0", "1", "-", "0", "1", "x">>),
     JInt(<<"2", "0", "2", "5", "0", "1", "0", "1">>),
     JInt(<<"0">>),
     JStr(<<"2", "0", "2", "5", "1", "1", "1">>),
     JStr(<<"2", "0", "2", "5", "-", "0", "4", "-", "3", "1">>),
     JStr(<<"2", "0", "2", "5", "nen", "0", "1", "gatsu", "0", "5", "nichi">>)}

AmountValues ==
    {Missing,
     JNull,
     JStr(<<"1", ",", "0", "0", "0">>),
     JStr(<<"1", "0", "0", "0", "a">>),
     JStr(<<>>),
     JStr(<<" ", "1", "0", "0", "0", " ">>),
     JStr(<<",">>),
     JInt(<<"1", "0", "0", "0">>),
     JInt(<<"0">>),
     JStr(<<"-", "5">>),
     JStr(<<"1", " ", "0", "0", "0">>),
     JStr(<<"1", "0", ".", "5">>),
     JStr(<<"0">>)}

VendorValues ==
    {[vendor |-> "missing", name |-> Missing],
     [vendor |-> "null", name |-> Missing],
     [vendor |-> "str", name |-> Missing],
     [vendor |-> "obj", name |-> Missing],
     [vendor |-> "obj", name |-> JNull],
     [vendor |-> "obj", name |-> JStr(<<>>)],
     [vendor |-> "obj", name |-> JStr(<<" ">>)],
     [vendor |-> "obj", name |-> JStr(<<"A", "c", "m", "e">>)],
     [vendor |-> "obj", name |-> JInt(<<"7">>)],
     [vendor |-> "obj", name |-> JInt(<<"0">>)]}

RegValues ==
    {Missing,
     JNull,
     JStr(<<>>),
     JStr(<<"T", "1", "2", "3">>),
     JStr(<<" ">>),
     JInt(<<"0">>),
     JInt(<<"5">>)}

\* One itemized line in the format of the prompt (name, quantity, unit price,
\* total), one that lacks its total, and one that is a string.
LineOfFour == JList(<<"pen", "2", "100", "200">>)
LineOfThree == JList(<<"pen", "2", "100">>)
LineOfText == JStr(<<"pen 2 100 200">>)

\* What the key of the itemized lines may hold.
ItemValues ==
    {JNull,
     JList(<<>>),
     JList(<<LineOfFour>>),
     JList(<<LineOfThree>>),
     JList(<<LineOfFour, LineOfText>>),
     JStr(<<"pen">>)}

ValidateInputs ==
    {FieldMap(d, a, v.vendor, v.name, r) :
        d \in DateValues, a \in AmountValues, v \in VendorValues, r \in RegValues}
    \cup {[m EXCEPT !.items = i] : m \in {FieldsA, FieldsB}, i \in ItemValues}

InitValidate ==
    /\ inputDir = {}
    /\ outputDir = {}
    /\ successDir = {}
    /\ errorDir = {}
    /\ masterLog = [corrupt |-> FALSE, entries |-> {}]
    /\ eventQueue = <<>>
    /\ nEvents = 0
    /\ active = <<>>
    /\ ended = Absent
    /\ vPad \in BOOLEAN
    /\ vIn \in ValidateInputs
    /\ vOut = Absent
    /\ ToolsIdle
    /\ session = NoSession

\* One call of the tool (tools.py:226-295).
ValidateCall ==
    /\ vOut = Absent
    /\ vOut' = Some(validate_extracted_data(vIn, vPad))
    /\ UNCHANGED <<fsVars, eventQueue, nEvents, active, ended, vPad, vIn, toolVars,
                   session>>

NextValidate == ValidateCall

SpecValidate == InitValidate /\ [][NextValidate]_vars

(***************************************************************************)
(* The filing and quarantine tools on their own, file by file             *)
(***************************************************************************)
\* How many source files are placed, how many files the output folder takes.
MaxPlaced == 3
MaxOutputs == 3

\* The record of scenario A as validate returns it.
RecordA == ValidatedChoices[FieldsA, TRUE].json[1]

\* An entry an earlier filing wrote.
OldEntry ==
    [key |-> [base |-> <<"o", "l", "d">>, rand |-> "9z9z9z"],
     rec |-> [RecordA EXCEPT !.orig = JStr(<<"o", ".pdf">>)]]

\* What the log file can hold when a filing starts: no file; a map; text that
\* is no JSON (empty, cut off); JSON that is no map (a list, null, a number);
\* bytes that are no UTF-8.
LogContents ==
    {[kind |-> "absent", entries |-> {}],
     [kind |-> "map", entries |-> {}],
     [kind |-> "map", entries |-> {OldEntry}],
     [kind |-> "text", entries |-> {}],
     [kind |-> "json", entries |-> {}],
     [kind |-> "bytes", entries |-> {}]}

\* tools.py:346-354: what the filing reads from the log file.  ok is FALSE when
\* the read raises something that line 352 does not catch.
ReadLog(file) ==
    CASE file.kind = "absent" -> [ok |-> TRUE, isMap |-> TRUE, master_data |-> {}]
      [] file.kind = "map" -> [ok |-> TRUE, isMap |-> TRUE, master_data |-> file.entries]
      [] file.kind = "text" -> [ok |-> TRUE, isMap |-> TRUE, master_data |-> {}]
      [] file.kind = "json" -> [ok |-> TRUE, isMap |-> FALSE, master_data |-> {}]
      [] file.kind = "bytes" -> [ok |-> FALSE, isMap |-> FALSE, master_data |-> {}]

\* A file of a folder: its name there and what is in it.
File(name, content) == [name |-> name, content |-> content]

Names(folder) == {f.name : f \in folder}

\* shutil.move(src, dst) onto a file path: a file of that name is replaced.
MovedInto(folder, file) == {f \in folder : f.name # file.name} \cup {file}

InitTools ==
    /\ inputDir = {}
    /\ outputDir = {}
    /\ successDir = {}
    /\ errorDir = {}
    /\ masterLog = [corrupt |-> FALSE, entries |-> {}]
    /\ eventQueue = <<>>
    /\ nEvents = 0
    /\ active = <<>>
    /\ ended = Absent
    /\ vPad = FALSE
    /\ vIn = FieldsA
    /\ vOut = Absent
    /\ \E log \in LogContents : tDisk = [EmptyDisk EXCEPT !.log = log]
    /\ tCall = Absent
    /\ tOut = Absent
    /\ tPlaced = 0
    /\ session = NoSession

ToolsFrame ==
    UNCHANGED <<fsVars, eventQueue, nEvents, active, ended, validateVars, session>>

\* A PDF is put into the input folder.
PlaceSource(p) ==
    /\ tCall = Absent
    /\ tPlaced < MaxPlaced
    /\ p \notin Names(tDisk.input)
    /\ tDisk' = [tDisk EXCEPT !.input = @ \cup {File(p, tPlaced + 1)}]
    /\ tPlaced' = tPlaced + 1
    /\ UNCHANGED <<tCall, tOut>>
    /\ ToolsFrame

\* tools.py:308-339: manage_processed_receipt_files is called for the path p
\* with the record of scenario A; the name and a free destination are made,
\* the source must exist.
ToolFilingStart(p, random_string) ==
    /\ tCall = Absent
    /\ Cardinality(tDisk.output) < MaxOutputs
    /\ LET name == NewPdfName(RecordA, random_string)
       IN IF p \notin Names(tDisk.input)
          THEN /\ tOut' = Some(FilingNotFound(p))
               /\ tCall' = tCall
          ELSE /\ tCall' = Some([pc |-> "copy", pdf_path |-> p, name |-> name,
                                 destination |->
                                     FreeDestination(name, 0, Names(tDisk.output)),
                                 master_data |-> {}])
               /\ tOut' = Absent
    /\ UNCHANGED <<tDisk, tPlaced>>
    /\ ToolsFrame

At(pc) == tCall # Absent /\ tCall[1].pc = pc

SourceOf(call) == CHOOSE f \in tDisk.input : f.name = call.pdf_path

\* tools.py:343
ToolCopy ==
    /\ At("copy")
    /\ tDisk' = [tDisk EXCEPT !.output =
                    @ \cup {File(tCall[1].destination, SourceOf(tCall[1]).content)}]
    /\ tCall' = Some([tCall[1] EXCEPT !.pc = "read"])
    /\ UNCHANGED <<tOut, tPlaced>>
    /\ ToolsFrame

\* tools.py:345-358: the log is read and the entry set in memory; a log that is
\* no UTF-8 makes json.load raise UnicodeDecodeError, a log that is JSON but no
\* map makes the assignment of line 358 raise TypeError; both end the call at
\* line 372.
ToolLogRead ==
    /\ At("read")
    /\ LET call == tCall[1]
           read == ReadLog(tDisk.log)
       IN IF ~read.ok
          THEN /\ tOut' = Some(FilingFailure(call.pdf_path, "UnicodeDecodeError"))
               /\ tCall' = Absent
          ELSE IF ~read.isMap
          THEN /\ tOut' = Some(FilingFailure(call.pdf_path, "TypeError"))
               /\ tCall' = Absent
          ELSE /\ tOut' = tOut
               /\ tCall' = Some([call EXCEPT
                     !.pc = "open",
                     !.master_data =
                         LogWithEntry([corrupt |-> FALSE, entries |-> read.master_data],
                                      call.name, RecordA, call.pdf_path).entries])
    /\ UNCHANGED <<tDisk, tPlaced>>
    /\ ToolsFrame

\* tools.py:360: open(master_json_file_path, "w") empties the file.
ToolLogOpen ==
    /\ At("open")
    /\ tDisk' = [tDisk EXCEPT !.log = [kind |-> "text", entries |-> {}]]
    /\ tCall' = Some([tCall[1] EXCEPT !.pc = "dump"])
    /\ UNCHANGED <<tOut, tPlaced>>
    /\ ToolsFrame

\* tools.py:361: json.dump has written the whole map and the file is closed.
ToolLogDump ==
    /\ At("dump")
    /\ tDisk' = [tDisk EXCEPT !.log = [kind |-> "map", entries |-> tCall[1].master_data]]
    /\ tCall' = Some([tCall[1] EXCEPT !.pc = "move"])
    /\ UNCHANGED <<tOut, tPlaced>>
    /\ ToolsFrame

\* The process is killed while the map is being written.
ToolCrash ==
    /\ At("dump")
    /\ tCall' = Absent
    /\ tOut' = Some(Tagged("KILLED", <<>>))
    /\ UNCHANGED <<tDisk, tPlaced>>
    /\ ToolsFrame

\* tools.py:364-369: the source is moved to the success folder under its own
\* name and the tool returns.
ToolMove ==
    /\ At("move")
    /\ LET call == tCall[1]
           source == SourceOf(call)
       IN /\ tDisk' = [tDisk EXCEPT !.input = @ \ {source},
                                    !.success = MovedInto(@, source)]
          /\ tOut' = Some(FilingSuccess(call.pdf_path))
    /\ tCall' = Absent
    /\ UNCHANGED tPlaced
    /\ ToolsFrame

\* Reasons a document is sent to review with.
ToolReasons == {<<"unreadable">>}

\* tools.py:374-390: request_human_review(p, problem_description, error folder)
ToolQuarantine(p, problem_description) ==
    /\ tCall = Absent
    /\ LET present == p \in Names(tDisk.input)
       IN /\ tOut' = Some(request_human_review(p, problem_description, present, TRUE))
          /\ tDisk' = IF present
                      THEN LET source == CHOOSE f \in tDisk.input : f.name = p
                           IN [tDisk EXCEPT !.input = @ \ {source},
                                            !.error = MovedInto(@, source)]
                      ELSE tDisk
    /\ UNCHANGED <<tCall, tPlaced>>
    /\ ToolsFrame

NextTools ==
    \/ \E p \in PdfPaths : PlaceSource(p)
    \/ \E p \in PdfPaths : \E random_string \in RandomStrings :
          ToolFilingStart(p, random_string)
    \/ ToolCopy
    \/ ToolLogRead
    \/ ToolLogOpen
    \/ ToolLogDump
    \/ ToolCrash
    \/ ToolMove
    \/ \E p \in PdfPaths : \E reason \in ToolReasons : ToolQuarantine(p, reason)

SpecTools == InitTools /\ [][NextTools]_vars

(***************************************************************************)
(* One review session on its own: human_validation_with_gradio and the     *)
(* PDFServer it is given, thread by thread                                 *)
(***************************************************************************)
\* How many times the reviewer presses a button of one page.
MaxSubmits == 2

\* tools.py:30-35: a PDFServer.  httpd says that the attribute self.httpd holds
\* a server object; serving says that the serve_forever thread runs and the
\* port is bound.
NewPDFServer == [httpd |-> FALSE, serving |-> FALSE]

\* tools.py:42-53
PDFServerStart(server) ==
    IF server.httpd THEN server ELSE [httpd |-> TRUE, serving |-> TRUE]

\* tools.py:55-78: with a server at hand, stop() pings it, copies self.httpd
\* and self.thread into locals, sets both attributes to None and then calls
\* self.httpd.shutdown(), which raises AttributeError on None; the handler of
\* line 74 prints the error.  serve_forever is never told to stop and the
\* socket is never closed.
PDFServerStop(server) ==
    [httpd |-> FALSE, serving |-> server.serving]

\* A join that waits for the thread however long it takes
JoinWithoutTimeout(ui) == ui # "running"

\* tools.py:513-516: gradio_thread.join(timeout=3) is called when the thread is
\* alive and returns when the thread has ended or the three seconds are over.
JoinReturns(ui) == TRUE

\* tools.py:528
SetupError ==
    Tagged("ERROR:", <<" An error occurred during Gradio human validation setup">>)

\* The tool is called by call_human_validation with a new PDFServer
\* (agent_controller.py:199-206).  present says that the PDF is at its path.
\*   started  pdf_server.start() has returned
\*   ui       the thread of launch_ui: not created, running, ended
\*   holder   validation_result_holder
\*   ready    server_ready_to_close
NewSession(present) ==
    [pc |-> "call", present |-> present, server |-> NewPDFServer, started |-> FALSE,
     ui |-> "none", holder |-> <<>>, ready |-> FALSE, result |-> Absent]

InitReview ==
    /\ inputDir = {}
    /\ outputDir = {}
    /\ successDir = {}
    /\ errorDir = {}
    /\ masterLog = [corrupt |-> FALSE, entries |-> {}]
    /\ eventQueue = <<>>
    /\ nEvents = 0
    /\ active = <<>>
    /\ ended = Absent
    /\ vPad = FALSE
    /\ vIn = FieldsA
    /\ vOut = Absent
    /\ ToolsIdle
    /\ \E present \in BOOLEAN : session = NewSession(present)

ReviewFrame ==
    UNCHANGED <<fsVars, eventQueue, nEvents, active, ended, validateVars, toolVars>>

SessionAt(pc) == session.pc = pc

SessionReturns(result) ==
    session' = [session EXCEPT !.pc = "returned", !.result = Some(result)]

\* tools.py:406-424: the arguments are parsed (json.loads can raise) and the PDF
\* is looked for.
SessionCheck ==
    /\ SessionAt("call")
    /\ ReviewFrame
    /\ \/ SessionReturns(SetupError)
       \/ IF session.present
          THEN session' = [session EXCEPT !.pc = "start"]
          ELSE SessionReturns(Tagged("REJECTED:",
                                     <<" Original PDF file not found for display.">>))

\* tools.py:427: pdf_server.start(); binding the port can raise.
SessionStartServer ==
    /\ SessionAt("start")
    /\ ReviewFrame
    /\ \/ SessionReturns(SetupError)
       \/ session' = [session EXCEPT !.pc = "build",
                                     !.server = PDFServerStart(session.server),
                                     !.started = TRUE]

\* tools.py:428-506: the page is built and the thread of launch_ui is started.
\* An exception on the way is caught at line 526, which returns the error.
SessionLaunch ==
    /\ SessionAt("build")
    /\ ReviewFrame
    /\ \/ SessionReturns(SetupError)
       \/ session' = [session EXCEPT !.pc = "wait", !.ui = "running"]

\* tools.py:435-449: the reviewer presses a button of the page, which shows
\* the fields of FieldsA.
SessionSubmit(sub) ==
    /\ session.ui = "running"
    /\ Len(session.holder) < MaxSubmits
    /\ ReviewFrame
    /\ session' = [session EXCEPT
          !.holder = Append(session.holder,
                            submit(EditorParsed(FieldsA, sub.editor),
                                   sub.action_type, sub.feedback)),
          !.ready = TRUE]

\* demo.launch returns or raises in its thread (tools.py:501-504).
SessionUiExit ==
    /\ session.ui = "running"
    /\ ReviewFrame
    /\ session' = [session EXCEPT !.ui = "exited"]

\* tools.py:508: server_ready_to_close.wait() returns once the event is set.
SessionWake ==
    /\ SessionAt("wait")
    /\ session.ready
    /\ ReviewFrame
    /\ session' = [session EXCEPT !.pc = "stop"]

\* tools.py:510
SessionStop ==
    /\ SessionAt("stop")
    /\ ReviewFrame
    /\ session' = [session EXCEPT !.pc = "join",
                                  !.server = PDFServerStop(session.server)]

\* tools.py:513-516
SessionJoin ==
    /\ SessionAt("join")
    /\ JoinReturns(session.ui)
    /\ ReviewFrame
    /\ session' = [session EXCEPT !.pc = "poll"]

\* tools.py:520-524: the loop sleeps while the holder is empty; the first
\* recorded result is returned.
SessionReturn ==
    /\ SessionAt("poll")
    /\ session.holder # <<>>
    /\ ReviewFrame
    /\ SessionReturns(session.holder[1])

\* The steps of the thread that called the tool.
SessionThread ==
    \/ SessionCheck
    \/ SessionStartServer
    \/ SessionLaunch
    \/ SessionWake
    \/ SessionStop
    \/ SessionJoin
    \/ SessionReturn

NextReview ==
    \/ SessionThread
    \/ \E sub \in Submissions : SessionSubmit(sub)
    \/ SessionUiExit

SpecReview == InitReview /\ [][NextReview]_vars

\* The session with a calling thread that keeps running.  Nothing is assumed
\* of the reviewer or of the thread of the page.
FairReview == SpecReview /\ WF_vars(SessionThread)

(***************************************************************************)
(* Properties of validate_extracted_data                                   *)
(***************************************************************************)
SeqValue(s) == IF Len(s) = 1 THEN DigitVal(s[1]) ELSE Num2(s, 1)

\* s is a year of four digits, sep1, a month of lm digits, sep2, a day of ld
\* digits and sep3, and the three numbers are a day of the calendar.
ReadsAsDate(s, sep1, sep2, sep3, lm, ld) ==
    LET pm == 5 + Len(sep1)
        pd == pm + lm + Len(sep2)
    IN /\ Len(s) = 4 + Len(sep1) + lm + Len(sep2) + ld + Len(sep3)
       /\ \A i \in 1..4 : s[i] \in Digits
       /\ SubSeq(s, 5, 4 + Len(sep1)) = sep1
       /\ \A i \in pm..(pm + lm - 1) : s[i] \in Digits
       /\ SubSeq(s, pm + lm, pd - 1) = sep2
       /\ \A i \in pd..(pd + ld - 1) : s[i] \in Digits
       /\ SubSeq(s, pd + ld, Len(s)) = sep3
       /\ LET y == 100 * Num2(s, 1) + Num2(s, 3)
              m == SeqValue(SubSeq(s, pm, pm + lm - 1))
              d == SeqValue(SubSeq(s, pd, pd + ld - 1))
          IN y >= 1 /\ m \in 1..12 /\ d >= 1 /\ d <= DaysInMonth(y, m)

\* The separators of the four supported formats.
SupportedSeparators ==
    {<< <<"nen">>, <<"gatsu">>, <<"nichi">> >>, << <<"/">>, <<"/">>, <<>> >>,
     << <<"-">>, <<"-">>, <<>> >>, << <<>>, <<>>, <<>> >>}

\* The date is a string that, blanks aside, is a calendar day in a supported format.
DateRuleHolds(data) ==
    /\ data.date.t = "str"
    /\ \E seps \in SupportedSeparators : \E lm \in 1..2 : \E ld \in 1..2 :
          ReadsAsDate(SelectSeq(data.date.v, LAMBDA c : c # " "),
                      seps[1], seps[2], seps[3], lm, ld)

\* The amount, as text, has a digit and nothing but digits, thousands
\* separators and blanks around it.
AmountRuleHolds(data) ==
    /\ data.amount.t \in {"str", "int"}
    /\ \E i \in 1..Len(data.amount.v) : data.amount.v[i] \in Digits
    /\ \A i \in 1..Len(data.amount.v) : data.amount.v[i] \in Digits \cup {",", " "}
    /\ \A i, j, k \in 1..Len(data.amount.v) :
          i < j /\ j < k /\ data.amount.v[i] \in Digits /\ data.amount.v[k] \in Digits
             => data.amount.v[j] # " "

\* The vendor has a name that is a string with a character other than a blank.
VendorRuleHolds(data) ==
    /\ data.vendor = "obj"
    /\ data.name.t = "str"
    /\ \E i \in 1..Len(data.name.v) : data.name.v[i] # " "

\* The registration identifier is there and is not empty (nor the number 0).
RegistrationRuleHolds(data) ==
    /\ data.reg.t \in {"str", "int"}
    /\ data.reg.v \notin {<<>>, <<"0">>}

D_20250101 == <<"2", "0", "2", "5", "0", "1", "0", "1">>
A_1000_plain == <<"1", "0", "0", "0">>

\* C10: validate returns Accepted exactly when the four rules hold (the date is
\* a calendar day in a supported format, the amount is digits once separators
\* and surrounding blanks are gone, the vendor name is not blank, the
\* registration identifier is not empty); scenario A is accepted with date
\* 20250101 and amount 1000.
C10_AcceptedIffRules ==
    vOut # Absent =>
        /\ StartsWith(vOut[1], "OK:") <=>
              /\ DateRuleHolds(vIn)
              /\ AmountRuleHolds(vIn)
              /\ VendorRuleHolds(vIn)
              /\ RegistrationRuleHolds(vIn)
        /\ vIn = FieldsA =>
              vOut[1] = TaggedJson("OK:", [FieldsA EXCEPT !.date = JStr(D_20250101),
                                                          !.amount = JStr(A_1000_plain)])

\* Scenario A has been validated and accepted.
C10_Witness == vOut # Absent /\ vIn = FieldsA /\ StartsWith(vOut[1], "OK:")

(***************************************************************************)
(* Properties of the pipeline                                              *)
(***************************************************************************)
AllRuns == {active[i] : i \in 1..Len(active)} \cup {ended[j] : j \in 1..Len(ended)}

EndedRuns == {ended[j] : j \in 1..Len(ended)}

\* The stage a run is in, from the node it is about to run or is inside of.
StageOfPc(pc) ==
    CASE pc \in {"mf_copy", "mf_log", "mf_move"} -> "manage_files"
      [] pc = "review_wait" -> "human_validation"
      [] OTHER -> pc

\* The positions in the run's stream of chunks at which node returned.
Chunks(r, node) == {k \in 1..Len(r.trace) : r.trace[k].node = node}

\* The stage that came, or is coming, after the k-th chunk.
StageAfter(r, k) == IF k < Len(r.trace) THEN r.trace[k + 1].node ELSE StageOfPc(r.pc)

\* The node's return value carries a tool result that starts with tag.
Returned(out, tag) ==
    out.validated_data # Absent /\ StartsWith(out.validated_data[1], tag)

ReportedFailed(out) == out.processed_status = Some("FAILED")

StageFailed(r, node) == \E k \in Chunks(r, node) : ReportedFailed(r.trace[k].out)

\* The two observable outcomes of a run.
Filed(r) == r.logged # Absent /\ HasKey(masterLog, r.logged[1])
Quarantined(r) == r.quarantined /\ r.state.pdf_path \in errorDir

\* C1: no run has both outcomes: its entry in the master log and its source in
\* the error folder, whichever step of the filing fails.
C1_FiledXorQuarantined ==
    \A r \in AllRuns : ~(Filed(r) /\ Quarantined(r))

OneRunAtATime ==
    /\ Len(active) <= 1
    /\ \A i, j \in 1..Len(active) :
          active[i].state.pdf_path = active[j].state.pdf_path => i = j

\* C3: the dispatcher starts one run per newly observed path; a notification
\* that arrives for a path whose run is in progress is ignored: no second run
\* for that path is started or queued.
C3_DuplicateIgnored ==
    \A i \in 1..Len(active) : \A k \in 1..Len(eventQueue) :
        HandlesEvent(eventQueue[k]) =>
            eventQueue[k].src_path # active[i].state.pdf_path

C5_ReviewRouting ==
    \A r \in AllRuns : \A k \in Chunks(r, "human_validation") :
        StageAfter(r, k) = IF Returned(r.trace[k].out, "APPROVED:")
                           THEN "manage_files"
                           ELSE "request_review"

\* A run whose review was shown and was not approved has gone through the
\* quarantine stage.
C5_Witness ==
    \E r \in AllRuns : \E k \in Chunks(r, "human_validation") :
        /\ r.presented # Absent
        /\ Returned(r.trace[k].out, "REJECTED:")
        /\ Chunks(r, "request_review") # {}

\* What the extraction tool and the recognition service report as errors.
ExtractionErrorTexts(pdf_path) ==
    {Text(Tagged("ERROR:", e)) : e \in CollaboratorErrors}
    \cup {Text(Tagged("ERROR:", <<" PDF file not found at ">> \o pdf_path))}

RecognitionErrorTexts == {Text(Tagged("ERROR:", e)) : e \in CollaboratorErrors}

FailedEarly(r) == StageFailed(r, "extract_images") \/ StageFailed(r, "extract_data")

C8_DefectGoesToReview ==
    \A r \in AllRuns : \A k \in Chunks(r, "validate_data") :
        Returned(r.trace[k].out, "ERROR:") =>
            /\ ~ReportedFailed(r.trace[k].out)
            /\ StageAfter(r, k) = "human_validation"
            /\ r.presented # Absent =>
                  /\ r.presented[1].editor = r.state.extracted_data[1]
                  /\ Contains(r.presented[1].status,
                              r.trace[k].out.validated_data[1].text)
            /\ \A j \in Chunks(r, "human_validation") :
                  Returned(r.trace[j].out, "APPROVED:") =>
                      StageAfter(r, j) = "manage_files"

\* The validator returned errors, the page was shown, the reviewer approved and
\* the filing tool was called.
C8_Witness ==
    \E r \in AllRuns :
        /\ \E k \in Chunks(r, "validate_data") : Returned(r.trace[k].out, "ERROR:")
        /\ r.presented # Absent
        /\ \E j \in Chunks(r, "human_validation") : Returned(r.trace[j].out, "APPROVED:")
        /\ r.filing

\* C9: the reason with which a source is moved into the error folder contains
\* the message of the stage that failed first (the extraction error, the
\* recognition error, the reviewer's feedback, the filing error).
C9_ReasonHasCause ==
    \A r \in AllRuns :
        r.quarantined =>
            /\ r.cause # Absent
            /\ Contains(r.reason[1], r.cause[1])

(***************************************************************************)
(* Properties of the defect report                                         *)
(***************************************************************************)
\* The number of lines of a message.
LineCount(text) == 1 + Cardinality({i \in 1..Len(text) : text[i] = "\n"})

\* How many of the four rules the field map violates.
ViolatedRules(data) ==
    (IF DateRuleHolds(data) THEN 0 ELSE 1) + (IF AmountRuleHolds(data) THEN 0 ELSE 1)
    + (IF VendorRuleHolds(data) THEN 0 ELSE 1)
    + (IF RegistrationRuleHolds(data) THEN 0 ELSE 1)

ValidateReturned == vOut # Absent /\ ~StartsWith(vOut[1], "RAISE")

\* The report has a line about the date, the amount.
HasDateDefect(text) ==
    \E i \in 1..Len(text) : text[i] \in {"hizuke '", "hizuke (Date) is missing."}
HasAmountDefect(text) ==
    \E i \in 1..Len(text) :
        text[i] \in {"kingaku '", "kingaku was not extracted. Check the file."}

\* C11: validate collects every defect in one call: whenever it returns for a
\* field map that violates a rule, it returns Rejected with a report of
\* exactly one line per violated rule; a missing date, a missing amount and a
\* missing vendor with the registration present give three lines.
C11_OneLinePerViolatedRule ==
    ValidateReturned /\ ViolatedRules(vIn) > 0 =>
        /\ StartsWith(vOut[1], "ERROR:")
        /\ LineCount(vOut[1].text) = ViolatedRules(vIn)

\* Date, amount and vendor are missing, the registration is there, and the
\* report has three lines.
C11_Witness ==
    /\ vOut # Absent
    /\ vIn.date = Missing /\ vIn.amount = Missing /\ vIn.vendor = "missing"
    /\ RegistrationRuleHolds(vIn)
    /\ StartsWith(vOut[1], "ERROR:")
    /\ LineCount(vOut[1].text) = 3

\* The report names the date and the amount of scenario B, each in a line of
\* its own kind.
NamesDateAndAmountOfB(text) ==
    /\ Contains(text, <<"hizuke '">> \o D_2025_13_01)
    /\ Contains(text, <<"kingaku '">> \o A_1000a)

\* C12: for fields consisting only of the date 2025/13/01 and the amount 1000a
\* validate returns Rejected with four defects: one naming the date, one
\* naming the amount, one for the vendor that is not there and one for the
\* registration identifier that is not there.
C12_ScenarioBFourDefects ==
    vOut # Absent /\ vIn = FieldsB =>
        /\ StartsWith(vOut[1], "ERROR:")
        /\ LineCount(vOut[1].text) = 4
        /\ NamesDateAndAmountOfB(vOut[1].text)
        /\ Contains(vOut[1].text, VendorErrors(FieldsB)[1])
        /\ Contains(vOut[1].text, RegistrationErrors(FieldsB)[1])

\* validate has returned for scenario B.
C12_Witness ==
    /\ vOut # Absent /\ vIn = FieldsB
    /\ StartsWith(vOut[1], "ERROR:")
    /\ NamesDateAndAmountOfB(vOut[1].text)

\* The statement as written: scenario B is rejected with two defects.
C12_ScenarioBTwoDefects ==
    vOut # Absent /\ vIn = FieldsB =>
        /\ StartsWith(vOut[1], "ERROR:")
        /\ LineCount(vOut[1].text) = 2
        /\ NamesDateAndAmountOfB(vOut[1].text)

(***************************************************************************)
(* Date normalisation                                                      *)
(***************************************************************************)
\* s is written exactly in a supported format (four-digit year, two-digit
\* month, two-digit day) and is a day of the calendar.
InSupportedFormat(s) ==
    \E seps \in SupportedSeparators : ReadsAsDate(s, seps[1], seps[2], seps[3], 2, 2)

\* The eight digits YYYYMMDD of such a date.
AsYYYYMMDD(s) == SelectSeq(s, LAMBDA c : c \in Digits)

\* The date of the field map is a string that validate cannot read as a day.
Unparseable(data) ==
    /\ data.date.t = "str"
    /\ data.date.v # <<>>
    /\ ~DateRuleHolds(data)

\* How a defect line that names a date ends.
DateDefectClosings ==
    {"' is of an unexpected form or invalid.",
     "' is not in a recognised YYYYMMDD, YYYY/MM/DD or YYYY-MM-DD form."}

\* The three cases of the date rule, for the dates in Scope.
DateNormalizedWithin(Scope) ==
    ValidateReturned /\ vIn.date \in Scope =>
        /\ vIn.date.t = "str" /\ InSupportedFormat(vIn.date.v) =>
              /\ ~HasDateDefect(vOut[1].text)
              /\ StartsWith(vOut[1], "OK:") =>
                    vOut[1].json[1].date = JStr(AsYYYYMMDD(vIn.date.v))
        /\ Unparseable(vIn) =>
              /\ StartsWith(vOut[1], "ERROR:")
              /\ \E closing \in DateDefectClosings :
                    Contains(vOut[1].text, <<"hizuke '">> \o vIn.date.v \o <<closing>>)
        /\ vIn.date = Missing =>
              /\ StartsWith(vOut[1], "ERROR:")
              /\ Contains(vOut[1].text, <<"hizuke (Date) is missing.">>)

\* C13: every date in a supported format that is a day of the calendar is
\* replaced by the same day written YYYYMMDD and no date defect is reported;
\* every date string that cannot be read yields a defect naming the value; a
\* missing date yields the missing-date defect.
C13_DateNormalized == DateNormalizedWithin(DateValues)

\* The same for the dates whose year does not begin with 0.
DateNormalizedFromYear1000 ==
    DateNormalizedWithin({d \in DateValues : d.t = "str" /\ d.v # <<>> => d.v[1] # "0"})

(***************************************************************************)
(* Amount normalisation                                                    *)
(***************************************************************************)
\* v holds digits and thousands separators only, and at least one digit.
OnlyDigitsAndSeparators(v) ==
    /\ \A i \in 1..Len(v) : v[i] \in Digits \cup {","}
    /\ \E i \in 1..Len(v) : v[i] \in Digits

\* v without its separators and the blanks around it still holds a non-digit.
StillHasNonDigit(v) ==
    LET rest == Strip(SelectSeq(v, LAMBDA c : c # ","))
    IN \E i \in 1..Len(rest) : rest[i] \notin Digits

\* C14: an amount string of digits and optional thousands separators is
\* accepted and stored as its digits with the separators stripped; an amount
\* string that still holds a non-digit once separators and surrounding blanks
\* are gone yields a defect naming the amount.
C14_AmountNormalized ==
    ValidateReturned /\ vIn.amount.t = "str" =>
        /\ OnlyDigitsAndSeparators(vIn.amount.v) =>
              /\ ~HasAmountDefect(vOut[1].text)
              /\ StartsWith(vOut[1], "OK:") =>
                    vOut[1].json[1].amount
                        = JStr(SelectSeq(vIn.amount.v, LAMBDA c : c \in Digits))
        /\ StillHasNonDigit(vIn.amount.v) =>
              /\ StartsWith(vOut[1], "ERROR:")
              /\ Contains(vOut[1].text,
                          <<"kingaku '">> \o vIn.amount.v \o <<"' is not purely numeric.">>)

\* The amount 1,000 has been accepted and is stored as 1000.
C14_Witness ==
    /\ vOut # Absent
    /\ vIn.amount = JStr(A_1000)
    /\ StartsWith(vOut[1], "OK:")
    /\ vOut[1].json[1].amount = JStr(A_1000_plain)

\* An amount with a letter has been rejected.
C14_WitnessRejected ==
    /\ vOut # Absent
    /\ vIn.amount = JStr(A_1000a)
    /\ StartsWith(vOut[1], "ERROR:")
    /\ HasAmountDefect(vOut[1].text)

(***************************************************************************)
(* Vendor and registration                                                 *)
(***************************************************************************)
\* C15: a vendor name that is missing, null or blank and a registration
\* identifier that is missing or empty are each reported as a defect of a
\* Rejected result; for every field map validate returns Accepted or Rejected
\* and never fails with an error of its own.
C15_ReturnsForEveryFieldMap ==
    vOut # Absent =>
        /\ vOut[1].tag \in {"OK:", "ERROR:"}
        /\ ~VendorRuleHolds(vIn) =>
              /\ StartsWith(vOut[1], "ERROR:")
              /\ Contains(vOut[1].text, <<"aitesaki was not extracted. Check the file.">>)
        /\ ~RegistrationRuleHolds(vIn) =>
              /\ StartsWith(vOut[1], "ERROR:")
              /\ Contains(vOut[1].text, <<"toroku bango was not extracted. Check the file.">>)

\* The same for the field maps whose vendor is an object or is not there.
ReturnsWhenVendorIsObject ==
    vOut # Absent /\ vIn.vendor \in {"obj", "missing"} =>
        /\ vOut[1].tag \in {"OK:", "ERROR:"}
        /\ ~VendorRuleHolds(vIn) =>
              /\ StartsWith(vOut[1], "ERROR:")
              /\ Contains(vOut[1].text, <<"aitesaki was not extracted. Check the file.">>)
        /\ ~RegistrationRuleHolds(vIn) =>
              /\ StartsWith(vOut[1], "ERROR:")
              /\ Contains(vOut[1].text, <<"toroku bango was not extracted. Check the file.">>)

(***************************************************************************)
(* What an accepted field map keeps                                        *)
(***************************************************************************)
\* The digits of the amount as it was extracted (a string or a number).
AmountDigits(data) == SelectSeq(data.amount.v, LAMBDA c : c \in Digits)

\* out differs from data in the date and the amount at most, and its amount is
\* the separator-free digit string.
OtherFieldsKept(data, out) ==
    /\ out = [data EXCEPT !.date = out.date, !.amount = out.amount]
    /\ out.amount = JStr(AmountDigits(data))

\* v is the eight digits YYYYMMDD of the day that data's date denotes.
IsYYYYMMDDOf(v, data) ==
    LET day == ParseDate(SelectSeq(data.date.v, LAMBDA c : c # " "))
    IN /\ Len(v) = 8
       /\ \A i \in 1..8 : v[i] \in Digits
       /\ 100 * Num2(v, 1) + Num2(v, 3) = day.Y
       /\ Num2(v, 5) = day.m
       /\ Num2(v, 7) = day.d

\* C16: when validate returns Accepted, the returned fields are the input
\* fields except that the date is replaced by its YYYYMMDD form and the amount
\* by its separator-free digit string; every other field is unchanged.
C16_AcceptedKeepsOtherFields ==
    vOut # Absent /\ StartsWith(vOut[1], "OK:") =>
        /\ OtherFieldsKept(vIn, vOut[1].json[1])
        /\ vOut[1].json[1].date.t = "str"
        /\ IsYYYYMMDDOf(vOut[1].json[1].date.v, vIn)

\* The part of it about the fields other than the date.
AcceptedKeepsFieldsButDate ==
    vOut # Absent /\ StartsWith(vOut[1], "OK:") =>
        OtherFieldsKept(vIn, vOut[1].json[1])

(***************************************************************************)
(* Properties of the filing                                                *)
(***************************************************************************)
\* The runs that are inside the filing at one of its steps.
RunsAt(pcs) == {i \in 1..Len(active) : active[i].pc \in pcs}

\* C17: the filing copies, then writes the log, then moves the source: the log
\* changes only in a filing whose copy is in the output folder, and a source
\* arrives in the success folder only from a filing whose entry is in the log.
C17_CopyThenLogThenMove ==
    [][/\ masterLog' # masterLog =>
             \E i \in RunsAt({"mf_log"}) :
                 /\ active[i].copied
                 /\ active[i].mf[1].destination \in outputDir
       /\ successDir' # successDir =>
             \E i \in RunsAt({"mf_move"}) :
                 /\ active[i].copied
                 /\ active[i].logged # Absent
                 /\ HasKey(masterLog, active[i].logged[1])
                 /\ successDir' = successDir \cup {active[i].state.pdf_path}]_vars

\* A filing has gone through its three steps.
C17_Witness ==
    \E r \in EndedRuns :
        /\ r.copied /\ r.logged # Absent
        /\ HasKey(masterLog, r.logged[1])
        /\ r.state.pdf_path \in successDir

\* The filing of run i ends in this step and the node reports the failure.
FilingFails(i) ==
    /\ i \in RunsAt({"manage_files", "mf_copy", "mf_log"})
    /\ Len(active') >= i
    /\ active'[i].pc = "finish"
    /\ active'[i].final_state.node = "manage_files"
    /\ ReportedFailed(active'[i].final_state.out)

\* C18: a filing that fails at one of its steps before the move (invalid or
\* incomplete record, missing source, failed copy, failed read or write of
\* the log) returns an error, leaves the master log exactly as it was before
\* the call and leaves the source at its path.
C18_FailureBeforeMoveChangesNothing ==
    [][/\ RunsAt({"manage_files", "mf_copy"}) # {} => masterLog' = masterLog
       /\ \A i \in 1..Len(active) :
             FilingFails(i) =>
                 /\ masterLog' = masterLog
                 /\ inputDir' = inputDir
                 /\ active[i].logged = Absent
                 /\ successDir' = successDir]_vars

\* The same without the write of the log that fails after the file was opened.
FailureBeforeLogWriteChangesNothing ==
    [][/\ RunsAt({"manage_files", "mf_copy"}) # {} => masterLog' = masterLog
       /\ \A i \in 1..Len(active) :
             FilingFails(i) /\ (active[i].pc = "mf_log" => masterLog' = masterLog) =>
                 /\ masterLog' = masterLog
                 /\ inputDir' = inputDir
                 /\ active[i].logged = Absent
                 /\ successDir' = successDir]_vars

\* The filing of r copied the file and wrote the log, and the node has returned.
FiledThenReturned(r) ==
    /\ r.copied /\ r.logged # Absent
    /\ r.final_state.node = "manage_files"

\* C19: when the final move fails after the copy and the log write succeeded,
\* the filing still reports success and the run ends filed: the node never
\* reports a failure for a document whose entry is written, and its source is
\* never quarantined.
C19_MoveFailureStillFiled ==
    \A r \in AllRuns :
        FiledThenReturned(r) =>
            /\ RunSucceeded(r.final_state)
            /\ ~ReportedFailed(r.final_state.out)
            /\ ~r.quarantined

\* The same for the filings whose move succeeded.
MovedFilingSucceeds ==
    \A r \in AllRuns :
        FiledThenReturned(r) /\ r.final_state.out.error_message = Absent =>
            /\ RunSucceeded(r.final_state)
            /\ ~r.quarantined

\* The copy of run i is made in this step: a new file of the output folder.
CopyMakesNewFile(i) ==
    /\ active[i].mf[1].destination \notin outputDir
    /\ outputDir' = outputDir \cup {active[i].mf[1].destination}

\* The entry of run i is written in this step: a new key of a log that keeps
\* every entry it had.
WriteAddsNewKey(i) ==
    /\ ~HasKey(masterLog, active[i].mf[1].name)
    /\ ~masterLog.corrupt => masterLog.entries \subseteq masterLog'.entries
    /\ HasKey(masterLog', active[i].mf[1].name)

\* C20: filings that generate the same name, the random part included, all
\* succeed with an output file and a log key of their own: every copy makes a
\* new file and every log write adds a new key without replacing an entry.
C20_CollidingFilingsBothKept ==
    [][\A i \in 1..Len(active) :
          /\ i \in RunsAt({"mf_copy"}) /\ Len(active') >= i /\ active'[i].pc = "mf_log"
                => CopyMakesNewFile(i)
          /\ i \in RunsAt({"mf_log"}) /\ Len(active') >= i /\ active'[i].pc = "mf_move"
                => WriteAddsNewKey(i)]_vars

\* The part of it about the output files.
CollidingFilingsKeepBothFiles ==
    [][\A i \in 1..Len(active) :
          i \in RunsAt({"mf_copy"}) /\ Len(active') >= i /\ active'[i].pc = "mf_log"
              => CopyMakesNewFile(i)]_vars

\* A second file of the same name has been filed under a counter.
SameNameFiledTwice ==
    \E f \in outputDir : f.counter = 1 /\ OutputFile(f, 0) \in outputDir

(***************************************************************************)
(* Properties of the log file                                              *)
(***************************************************************************)
\* The filing under way gets past the reading of a log of one of these kinds
\* and, when it returns, has left a map that holds its entry.
FilingHealsLogOf(kinds) ==
       /\ At("read") /\ tDisk.log.kind \in kinds =>
             /\ tCall' # Absent
             /\ \E e \in tCall'[1].master_data : e.key = tCall[1].name
       /\ At("move") /\ tCall' = Absent =>
             /\ tOut' = Some(FilingSuccess(tCall[1].pdf_path))
             /\ tDisk'.log.kind = "map"
             /\ \E e \in tDisk'.log.entries : e.key = tCall[1].name

\* C21: when the log file is unreadable or corrupt (whatever it holds that is
\* not a valid serialized map), a filing still succeeds and leaves the log as
\* a valid map that holds at least the new entry.
C21_FilingHealsDamagedLog == [][FilingHealsLogOf({"text", "json", "bytes"})]_vars

\* The same for a log that is no JSON at all (empty, cut off).
FilingHealsUnparseableLog == [][FilingHealsLogOf({"text"})]_vars

\* A filing has succeeded on a log that was no JSON.
HealedUnparseableLog ==
    /\ tOut # Absent /\ StartsWith(tOut[1], "SUCCESS:")
    /\ tDisk.log.kind = "map"
    /\ OldEntry \notin tDisk.log.entries
    /\ tPlaced = 1

\* The runs that are somewhere between the start and the return of the filing.
RunsInFiling == RunsAt({"manage_files", "mf_copy", "mf_log", "mf_move"})

\* Run i writes the log in this step.
WritesLog(i) == i \in RunsAt({"mf_log"}) /\ Len(active') >= i /\ active'[i].pc = "mf_move"

\* C22: the read-modify-write of the log is mutually exclusive across runs and
\* loses no update: at most one run is inside the filing at any time, and a
\* write of the log adds the entry of its document and leaves every entry the
\* log held as it was, so that the log ends with an entry for every filing
\* that reported success.
C22_NoUpdateLost ==
    [][/\ Cardinality(RunsInFiling) <= 1
       /\ \A i \in 1..Len(active) :
             WritesLog(i) =>
                 /\ \E e \in masterLog'.entries :
                       /\ e.key = active[i].mf[1].name
                       /\ e.rec.orig = JStr(active[i].state.pdf_path)
                 /\ ~masterLog.corrupt => masterLog.entries \subseteq masterLog'.entries]_vars

\* The part of it that is about interleaving: one run at a time inside the
\* filing, and a write leaves the entry under every other key as it was.
LogUpdatesSerialized ==
    [][/\ Cardinality(RunsInFiling) <= 1
       /\ \A i \in 1..Len(active) :
             WritesLog(i) =>
                 /\ \E e \in masterLog'.entries :
                       /\ e.key = active[i].mf[1].name
                       /\ e.rec.orig = JStr(active[i].state.pdf_path)
                 /\ ~masterLog.corrupt =>
                       \A e \in masterLog.entries :
                           e.key # active[i].mf[1].name => e \in masterLog'.entries]_vars

\* Two filings have run one after the other and the log holds both entries.
TwoFilingsBothLogged ==
    /\ ~masterLog.corrupt
    /\ Cardinality({e.key : e \in masterLog.entries}) = 2
    /\ \A p \in PdfPaths : p \in successDir
    /\ \A p \in PdfPaths : \E e \in masterLog.entries : e.rec.orig = JStr(p)

\* C23: at every instant a reader can observe, also between the steps of a
\* write and after a kill in the middle of one, the log file holds a valid
\* serialized map, the previous content or the new one: every step that
\* changes the file takes it straight to the complete new map.
C23_LogNeverPartial ==
    [][tDisk'.log # tDisk.log =>
          /\ tCall # Absent
          /\ tDisk'.log = [kind |-> "map", entries |-> tCall[1].master_data]]_vars

\* The file is cut off and no call is under way to complete it.
LeftCutOffByKill ==
    /\ tCall = Absent
    /\ tOut = Some(Tagged("KILLED", <<>>))
    /\ tDisk.log.kind = "text"
    /\ tPlaced = 1

\* rec is a complete normalized record: the date is a day written YYYYMMDD, the
\* amount a string of digits, the vendor name and the registration are there.
CompleteRecord(rec) ==
    /\ rec.date.t = "str"
    /\ ReadsAsDate(rec.date.v, <<>>, <<>>, <<>>, 2, 2)
    /\ rec.amount.t = "str"
    /\ rec.amount.v # <<>>
    /\ \A i \in 1..Len(rec.amount.v) : rec.amount.v[i] \in Digits
    /\ VendorRuleHolds(rec)
    /\ RegistrationRuleHolds(rec)

\* C24: every record written to the log is a complete normalized record,
\* whatever field data the reviewer approved.
C24_LoggedRecordsComplete ==
    \A e \in masterLog.entries : CompleteRecord(e.rec)

\* A complete record is in the log.
CompleteRecordLogged ==
    \E e \in masterLog.entries : CompleteRecord(e.rec)

(***************************************************************************)
(* Properties of the quarantine and of the folders                         *)
(***************************************************************************)
\* This step is a call of request_human_review for p that returns result.
QuarantineReturns(p, result) ==
    /\ tCall = Absent /\ tCall' = Absent
    /\ tPlaced' = tPlaced
    /\ tOut' = Some(result)
    /\ <<tDisk, tOut>>' # <<tDisk, tOut>>

C25_WitnessNotFound ==
    /\ tOut # Absent
    /\ \E p \in PdfPaths : \E reason \in ToolReasons :
          tOut[1] = request_human_review(p, reason, FALSE, TRUE)
    /\ tDisk.error = {}

\* C26: the output, quarantine and success folders are append-only: no filing
\* or quarantine overwrites or removes a file that is in one of them, also
\* when two sources of the same file name are handled one after the other.
C26_FoldersAppendOnly ==
    [][/\ tDisk.output \subseteq tDisk'.output
       /\ tDisk.error \subseteq tDisk'.error
       /\ tDisk.success \subseteq tDisk'.success]_vars

\* The part of it about the output folder.
OutputFolderAppendOnly ==
    [][tDisk.output \subseteq tDisk'.output]_vars

\* The output folder holds two files.
TwoOutputFiles == Cardinality(tDisk.output) = 2

\* The closing words of the messages with which the tools report a source that
\* is not at its path.
NotFoundWords ==
    {"' for human review; file not found.", "' not found for copying.",
     " PDF file not found at ", " Original PDF file not found for display."}

SaysNotFound(message) ==
    message # Absent /\ \E k \in 1..Len(message[1]) : message[1][k] \in NotFoundWords

\* The run failed, and when on_created came to move the source into the error
\* folder the source was not at its path.
FailedWithSourceGone(r) ==
    /\ ~RunSucceeded(r.final_state)
    /\ ~r.quarantined
    /\ ~r.presentAtEnd

\* C27: a failing run never takes the dispatcher down: on_created moves the
\* source into the error folder with a generic reason, and when the source
\* is no longer at its path the run has returned with the failure reported
\* as file-not-found.
C27_MissingSourceReported ==
    \A r \in EndedRuns :
        /\ ~RunSucceeded(r.final_state) /\ r.presentAtEnd =>
              r.quarantined /\ r.reason = Some(<<"No specific error message.">>)
        /\ FailedWithSourceGone(r) => SaysNotFound(r.state.error_message)

\* The part of it about runs whose source is in place when the stream ends:
\* on_created returns with the source in the error folder.
FailedRunQuarantinedByDispatcher ==
    \A r \in EndedRuns :
        ~RunSucceeded(r.final_state) /\ r.presentAtEnd =>
            r.quarantined /\ r.reason = Some(<<"No specific error message.">>)

\* The part of it about the review stage: when request_review ran without the
\* source at its path and never moved it, its patch says file not found.
ReviewStageReportsNotFound ==
    \A r \in EndedRuns :
        r.final_state.node = "request_review" /\ FailedWithSourceGone(r) =>
            SaysNotFound(r.final_state.out.error_message)

\* A run has returned whose filing failed and whose source was deleted before
\* on_created came to quarantine it.
SourceGoneAfterFilingFailed ==
    \E r \in EndedRuns :
        /\ FailedWithSourceGone(r)
        /\ r.final_state.node = "manage_files"

\* C28: the runs are independent of one another: while a run waits for the
\* reviewer, the run of another document that has been notified can start; a
\* run that is blocked does not hold the others back.
C28_BlockedRunLeavesOthersFree ==
    \A i \in 1..Len(active) :
        /\ active[i].pc = "review_wait"
        /\ eventQueue # <<>>
        /\ HandlesEvent(Head(eventQueue))
        /\ Head(eventQueue).src_path # active[i].state.pdf_path
        => ENABLED Dispatch

\* What holds instead: while a run waits for the reviewer no other run is in
\* progress, whatever has been notified.
ReviewHoldsTheObserver ==
    \A i \in 1..Len(active) : active[i].pc = "review_wait" => Len(active) = 1

\* A run waits for the reviewer while the notification of another document is
\* in the observer's queue.
NotifiedBehindReview ==
    \E i \in 1..Len(active) :
        /\ active[i].pc = "review_wait"
        /\ eventQueue # <<>>
        /\ HandlesEvent(Head(eventQueue))
        /\ Head(eventQueue).src_path # active[i].state.pdf_path

\* C29: the content server of a review session is released whatever the
\* outcome: when the tool has started it, it no longer serves (its thread has
\* stopped and its port is free) once the tool has returned.
C29_ServerReleased ==
    session.pc = "returned" /\ session.started => ~session.server.serving

\* What holds instead: once started, the server serves for good.
StartedServerKeepsServing ==
    session.pc # "none" /\ session.started => session.server.serving

\* The tool has returned an approval and the server it started still serves.
ServingAfterApproval ==
    /\ session.pc = "returned"
    /\ StartsWith(session.result[1], "APPROVED:")
    /\ session.server.serving

\* The tool has returned the error of a failed setup after it had started the
\* server, which still serves.
ServingAfterSetupError ==
    /\ session.pc = "returned"
    /\ session.result = Some(SetupError)
    /\ session.started
    /\ session.server.serving

\* C30: once the reviewer has submitted, the tool returns that decision after
\* a teardown that cannot hang: it calls the stop of the content server, waits
\* for the thread of the page no longer than the timeout of the join and goes
\* on, also when that thread never ends.
C30_DecisionReturnedAfterTeardown ==
    /\ [](session.pc = "returned" /\ session.ui # "none" =>
              /\ session.result = Some(session.holder[1])
              /\ ~session.server.httpd)
    /\ (session.pc # "none" /\ session.ready) ~> (session.pc = "returned")

\* The tool has returned the reviewer's decision while the thread of the page
\* is still running.
C30_Witness ==
    /\ session.pc = "returned"
    /\ session.ui = "running"
    /\ session.holder # <<>>
    /\ session.result = Some(session.holder[1])
    /\ StartsWith(session.result[1], "REJECTED:")

\* The run's extraction succeeded: the first chunk is the patch of
\* extract_images with status SUCCESS.
ExtractionSucceeded(r) ==
    /\ r.trace # <<>>
    /\ r.trace[1].node = "extract_images"
    /\ r.trace[1].out.processed_status = Some("SUCCESS")

\* C31: the image paths that a successful extraction produced are never
\* dropped: the state that every later stage produces, the quarantine stage
\* included, holds the same list.
C31_ImagePathsKept ==
    \A r \in AllRuns :
        ExtractionSucceeded(r) =>
            \A k \in 2..Len(r.trace) :
                r.trace[k].out.image_paths = r.trace[1].out.image_paths

\* The part of it that holds: every stage but request_review hands the list on.
ImagePathsKeptUntilQuarantine ==
    \A r \in AllRuns :
        ExtractionSucceeded(r) =>
            \A k \in 2..Len(r.trace) :
                r.trace[k].node # "request_review" =>
                    r.trace[k].out.image_paths = r.trace[1].out.image_paths

\* A run has been filed with the image paths of its extraction in its state.
FiledWithImagePaths ==
    \E r \in EndedRuns :
        /\ ExtractionSucceeded(r)
        /\ r.final_state.node = "manage_files"
        /\ r.state.image_paths = r.trace[1].out.image_paths
        /\ r.state.image_paths # Some(<<>>)

\* The stages at which the graph ends (agent_controller.py:370-371).
TerminalStages == {"manage_files", "request_review"}

\* C32: within one run no stage is retried: every stage function runs at most
\* once, and no stage runs after the filing stage or the quarantine stage
\* has, whose chunk is the last one of the stream.
C32_NoStageRetried ==
    \A r \in AllRuns :
        /\ \A j, k \in 1..Len(r.trace) : r.trace[j].node = r.trace[k].node => j = k
        /\ \A k \in 1..Len(r.trace) :
              r.trace[k].node \in TerminalStages =>
                  k = Len(r.trace) /\ r.pc \in {"finish", "returned"}

\* A run has returned after five stages, the last of them the quarantine.
C32_Witness ==
    \E r \in EndedRuns :
        /\ Len(r.trace) = 5
        /\ r.trace[5].node = "request_review"
        /\ r.quarantined
        /\ r.pc = "returned"

\* tools.py:281-290 (commented out): a line is well formed when it is a list of
\* four values.
WellFormedLine(line) == line.t = "list" /\ Len(line.v) = 4

\* The itemized lines are present and not a list, or one of them is malformed.
MalformedItems(items) ==
    /\ items.t \notin {"missing", "null"}
    /\ \/ items.t # "list"
       \/ \E k \in 1..Len(items.v) : ~WellFormedLine(items.v[k])

\* C35: when itemized lines are present each of them must be a 4-tuple (name,
\* quantity, unit price, total); validate reports every malformed entry as a
\* defect, so it does not accept a map that has one.
C35_MalformedItemsReported ==
    vOut # Absent /\ MalformedItems(vIn.items) => StartsWith(vOut[1], "ERROR:")

\* What holds instead: the itemized lines have no part in the verdict, and an
\* accepted map carries them as they came.
ItemsNotLookedAt ==
    vOut # Absent =>
        /\ StartsWith(vOut[1], "OK:") => vOut[1].json[1].items = vIn.items
        /\ vOut[1].tag = validate_extracted_data([vIn EXCEPT !.items = Missing], vPad).tag

\* A map whose itemized lines are malformed has been accepted.
AcceptedWithMalformedItems ==
    /\ vOut # Absent
    /\ MalformedItems(vIn.items)
    /\ StartsWith(vOut[1], "OK:")

\* The verdict the run holds is an approval of the reviewer.
Approved(r) ==
    r.state.validated_data # Absent /\ StartsWith(r.state.validated_data[1], "APPROVED:")

LacksPrerequisites(r) ==
    /\ Len(r.trace) >= 2
    /\ \/ r.trace[2].out.image_paths = Some(<<>>)
       \/ r.state.extracted_data = Absent

PdfNotification(event) ==
    ~event.is_directory /\ event.src_path[2] \in {".pdf", ".PDF"}

\* The observer takes a notification off its queue.
TakesNotification == Len(eventQueue') < Len(eventQueue)

\* C36: each notification for a path that is no directory and ends in .pdf,
\* in either case, starts exactly one run, whose state is the notified path
\* with no image paths; any other notification starts no run; handing a
\* notification over touches no file and no log, and nothing else starts a run.
C36_OneRunPerPdfNotification ==
    [][/\ TakesNotification =>
            /\ fsVars' = fsVars
            /\ IF PdfNotification(Head(eventQueue))
               THEN /\ Len(active') = Len(active) + 1
                    /\ \A i \in 1..Len(active) : active'[i] = active[i]
                    /\ active'[Len(active')].state =
                          [pdf_path |-> Head(eventQueue).src_path,
                           image_paths |-> Some(<<>>),
                           extracted_data |-> Absent, validated_data |-> Absent,
                           error_message |-> Absent, processed_status |-> Absent]
                    /\ active'[Len(active')].pc = "extract_images"
                    /\ active'[Len(active')].trace = <<>>
               ELSE active' = active
       /\ Len(active') > Len(active) => TakesNotification]_vars

\* A run has just been started for b.PDF, the last of the notifications.
C36_Witness ==
    /\ \E i \in 1..Len(active) :
          /\ active[i].state.pdf_path = <<"b", ".PDF">>
          /\ active[i].pc = "extract_images"
          /\ active[i].trace = <<>>
    /\ nEvents = MaxEvents
    /\ eventQueue = <<>>

\* The last stage of the run was the filing and it reported success.
FilingReportedSuccess(run) ==
    /\ run.final_state.node = "manage_files"
    /\ run.final_state.out.processed_status = Some("SUCCESS")

\* on_created returns from the run at position i.
Returns(i) ==
    /\ active[i].pc = "finish"
    /\ Len(active') < Len(active)
    /\ ended' # Absent

C38_LogMatchesOutputFolder ==
    RunsInFiling = {} =>
        /\ \A f \in outputDir :
              \E e \in masterLog.entries : OutputFile(e.key, 0) = f
        /\ \A e \in masterLog.entries : OutputFile(e.key, 0) \in outputDir

\* The part of it that holds: every key of the log is the name without counter
\* of a file of the output folder.
LogKeysNameOutputFiles ==
    \A e \in masterLog.entries : OutputFile(e.key, 0) \in outputDir

\* A filing has returned after its copy was made and its log write failed.
CopyLeftWithoutEntry ==
    \E r \in EndedRuns : r.copied /\ r.logged = Absent

\* A document has been filed under a name with a counter, which is no key of
\* the log.
FileWithCounterHasNoKey ==
    /\ RunsInFiling = {}
    /\ \E f \in outputDir :
          /\ f.counter = 1
          /\ \A e \in masterLog.entries : OutputFile(e.key, 0) # f
    /\ \E r \in EndedRuns : r.logged # Absent /\ RunSucceeded(r.final_state)

\* The call has accepted its input.
Accepted == vOut # Absent /\ StartsWith(vOut[1], "OK:")

\* C39: validate is idempotent on what it accepts: when it accepts a field map
\* and returns the fields N, it accepts N as well and returns N unchanged.
C39_ValidateIdempotent ==
    Accepted =>
        validate_extracted_data(vOut[1].json[1], vPad) = TaggedJson("OK:", vOut[1].json[1])

\* The part of it that holds: the same where strftime pads the year to four
\* digits, and everywhere for the dates from the year 1000 on.
ValidateIdempotentFromYear1000 ==
    Accepted /\ (vPad \/ Len(vOut[1].json[1].date.v) = 8) =>
        validate_extracted_data(vOut[1].json[1], vPad) = TaggedJson("OK:", vOut[1].json[1])

\* A map with a date that needed normalizing and an amount with a separator
\* has been accepted, and what was returned is accepted unchanged.
AcceptedTwiceUnchanged ==
    /\ Accepted
    /\ vIn.date = JStr(<<"2", "0", "2", "5", "/", "1", "/", "1">>)
    /\ vIn.amount = JStr(<<"1", ",", "0", "0", "0">>)
    /\ validate_extracted_data(vOut[1].json[1], vPad) = TaggedJson("OK:", vOut[1].json[1])

\* The result of a review is an approval.
ApprovalResult(result) == result # Absent /\ StartsWith(result[1], "APPROVED:")

\* C40: an approve whose edited text cannot be parsed yields a rejection, so
\* that every approval carries parsed fields and the filing, which is called
\* for approvals only, never receives a record it cannot parse.
C40_ApprovalCarriesParsedFields ==
    \A r \in AllRuns :
        /\ r.presented # Absent =>
              \A sub \in Submissions :
                  /\ sub.action_type = "approve"
                  /\ EditorParsed(r.presented[1].editor, sub.editor) = Absent
                  => StartsWith(submit(EditorParsed(r.presented[1].editor, sub.editor),
                                       sub.action_type, sub.feedback),
                                "REJECTED:")
        /\ \A k \in 1..Len(r.trace) :
              /\ r.trace[k].node = "human_validation"
              /\ ApprovalResult(r.trace[k].out.validated_data)
              => r.trace[k].out.validated_data[1].json # <<>>
        /\ r.filing =>
              /\ ApprovalResult(r.state.validated_data)
              /\ r.state.validated_data[1].json # <<>>

\* The reviewer has approved text that is no JSON: the review was recorded as
\* rejected, the filing was not called and the run has returned quarantined.
C40_Witness ==
    \E r \in EndedRuns :
        /\ r.presented # Absent
        /\ r.state.validated_data = Some(Tagged("REJECTED:", <<" JSON error">>))
        /\ ~r.filing
        /\ Quarantined(r)

=============================================================================
